---- MODULE Spec2Model ----
(***************************************************************************)
(* Source-map chaining (chain-source-maps script: chainSourceMaps, main),  *)
(* the build script that runs it between backup and clean-up, the          *)
(* fix-sourcemaps script, and stack-trace translation                      *)
(* (demo-translator.cjs: translateStackTrace).                             *)
(*                                                                         *)
(* A mapping document is modelled by what the source-map library makes of  *)
(* it: whether its envelope parses (JSON.parse and the consumer's          *)
(* constructor), whether its encoded "mappings" stream decodes (done by    *)
(* the library lazily, at the first eachMapping / originalPositionFor),    *)
(* and the segments the stream decodes to.  Lines are 1-based and columns  *)
(* 0-based, as the library presents them.                                  *)
(***************************************************************************)
EXTENDS Integers, Sequences, FiniteSets, TLC

VARIABLES
    tsDoc,          \* compose: the TypeScript map (A) given to chainSourceMaps
    obfDoc,         \* compose: the obfuscator map (B) given to chainSourceMaps
    chainedMap,     \* compose: what chainSourceMaps returned
    cpc,            \* compose: "call", "awaitTs", "awaitObf" (the awaits of lines
                    \* 110 and 111), "returned"
    srcFiles,       \* compose: the source files next to the TypeScript map, by source
    backup,         \* batch: contents of the maps found in TS_BACKUP_DIR
    dist,           \* batch: contents of the same relative paths in DIST_DIR
    dist0,          \* batch: DIST_DIR as it was when main started
    outcome,        \* batch: per map, the branch of the loop body it took
    chainedCount,   \* batch: main's chainedCount
    failedCount,    \* batch: main's failedCount
    fileIdx,        \* batch: position of the for loop in tsMapFiles
    bpc,            \* batch: "start", "loop", "await" (line 220), "done", "exit" of
                    \* the chain script; "build", "obfuscate", "built", "fix",
                    \* "fixed" of the scripts around it
    backupDir,      \* batch: whether TS_BACKUP_DIR exists
    script,         \* batch: the script that was started: "chain", "build" or "fix"
    stackTrace,     \* translate: the lines of the input, stackTrace.split('\n')
    sourcemaps,     \* translate: the map files under distDir, by path
    results,        \* translate: translateStackTrace's results array
    queried,        \* translate: per line, the columns asked of originalPositionFor
    lineIdx,        \* translate: position of the for loop in lines
    tpc,            \* translate: "loop" while iterating, "await" (line 79),
                    \* "returned", "summarised"
    platform,       \* translate: the platform of Node's path module
    mapPaths,       \* translate: per line, the sourceMapPath derived for it
    successCount,   \* translate: main's successCount
    totalFrames,    \* translate: main's totalFrames
    spc,            \* steps: the statement chainSourceMaps is at; "lookup" inside
                    \* originalPositionFor on tsConsumer
    tsJson,         \* steps: tsMapContent, its sources and whether it has sourcesContent
    tsConsumer,     \* steps: "none", "constructed", or "decoded" once its stream is
    obfConsumer,    \* steps: the same for the obfuscator map's consumer
    srcIdx,         \* steps: position of the forEach over tsMapContent.sources
    genContent,     \* steps: the generator's source contents (setSourceContent)
    todo,           \* steps: mappings of B whose callback has not returned
    added,          \* steps: the generator's mappings (addMapping)
    tsUses,         \* steps: per originalPositionFor on tsConsumer so far, the state
                    \* the consumer was in when the call was issued
    wire,           \* codec: an encoded mapping document
    decoded,        \* codec: what decoding wire gave
    rewire,         \* codec: what encoding decoded gave
    redecoded,      \* codec: what decoding rewire gave
    kpc             \* codec: "decode", "encode", "redecode", "done" or "malformed"

composeVars == <<tsDoc, obfDoc, chainedMap, cpc, srcFiles>>
batchVars ==
    <<backup, dist, dist0, outcome, chainedCount, failedCount, fileIdx, bpc, backupDir, script>>
traceVars ==
    <<stackTrace, sourcemaps, results, queried, lineIdx, tpc, platform, mapPaths,
      successCount, totalFrames>>
stepVars == <<spc, tsJson, tsConsumer, obfConsumer, srcIdx, genContent, todo, added, tsUses>>
codecVars == <<wire, decoded, rewire, redecoded, kpc>>
vars == <<composeVars, batchVars, traceVars, stepVars, codecVars>>

(***************************************************************************)
(* Bounds of the model.                                                    *)
(***************************************************************************)
MaxSegs == 2        \* segments per mapping document
MaxFiles == 2       \* maps found in the backup directory
MaxLines == 2       \* lines of a stack trace

(***************************************************************************)
(* Values.                                                                 *)
(***************************************************************************)
\* JS null for a source, a line or a column.
NullSource == "<null>"
NullNum == -1

\* A symbol name is a string (its characters) or null.
Str(chars) == [isNull |-> FALSE, chars |-> chars]
NullName == [isNull |-> TRUE, chars |-> <<>>]
userController == Str(<<"u", "s", "e", "r", "C", "o", "n", "t", "r", "o", "l", "l", "e", "r">>)
obfName == Str(<<"_", "0", "x", "3", "a", "4", "f", "2", "b">>)
obfName2 == Str(<<"_", "0", "x", "1", "7", "2", "7", "f", "b">>)
next_ == Str(<<"n", "e", "x", "t">>)
EmptyName == Str(<<>>)

\* JS truthiness of a name: null, undefined and "" are falsy.
Truthy(name) == ~name.isNull /\ name.chars # <<>>

\* A segment: its generated position, the source and the name its indexes
\* point at, and its original position.  sourceNth and nameNth tell which
\* listing its indexes point at when the document's sources or names list
\* the source or the name more than once: the first, unless said otherwise.
Seg(gl, gc, source, ol, oc, name) ==
    [gl |-> gl, gc |-> gc, source |-> source, ol |-> ol, oc |-> oc, name |-> name,
     sourceNth |-> 1, nameNth |-> 1]
\* A segment with a generated position only.
GenOnly(gl, gc) == Seg(gl, gc, NullSource, NullNum, NullNum, NullName)

\* What originalPositionFor returns when it finds nothing, and its throwing
\* (thrown) instead of returning.
\* The source of a mapping whose source index is past the document's sources.
Unlisted == "<unlisted>"

NullPosition ==
    [source |-> NullSource, line |-> NullNum, column |-> NullNum, name |-> NullName,
     thrown |-> FALSE]
Thrown == [NullPosition EXCEPT !.thrown = TRUE]
Position(source, line, column, name) ==
    [source |-> source, line |-> line, column |-> column, name |-> name, thrown |-> FALSE]

Range(seq) == {seq[i] : i \in 1..Len(seq)}
IndexIn(seq, x) == CHOOSE i \in 1..Len(seq) : seq[i] = x

\* Where a list has x for the nth time, and the how-manieth listing of its
\* value position k of a list is.
Listing(seq, x, nth) ==
    CHOOSE i \in 1..Len(seq) :
        seq[i] = x /\ Cardinality({j \in 1..i : seq[j] = x}) = nth
NthAt(seq, k) == Cardinality({j \in 1..k : seq[j] = seq[k]})

\* The values of a set in the order a list gives them.
Listed(order, S) == SelectSeq(order, LAMBDA x : x \in S)

(***************************************************************************)
(* Documents.                                                              *)
(***************************************************************************)
\* exists: whether there is a file at the path.
\* envelope: "bad" when readFileSync or JSON.parse throws on the file,
\* "invalid" when the file parses and new SourceMapConsumer rejects it (no
\* version, sources or mappings, or a version it does not support), else "ok".
\* mappingsOk: whether the encoded stream decodes.
\* sources, names: the tables of the file, in the order of the file.
\* hasContent: whether the file has a sourcesContent array.
\* content: the lines of sourcesContent, as [source, nth, n, text] for line n
\* of the entry for the nth listing of a source, text its characters.
DocIn(segs, content, hasContent, sources, names) ==
    [exists |-> TRUE, envelope |-> "ok", mappingsOk |-> TRUE, segs |-> segs,
     content |-> content, hasContent |-> hasContent, sources |-> sources, names |-> names]

\* The order sources and names are listed in where a document does not say.
SourceOrder ==
    <<"user.ts", "index.ts", "user.js", "index.js", "sourceMap", "../src/user.ts",
      "../src/index.ts", "./user.ts", "src/../user.ts">>

\* The parts of a source name between its separators.
PathParts ==
    [source \in Range(SourceOrder) |->
        CASE source = "./user.ts" -> <<".", "user.ts">>
          [] source = "src/../user.ts" -> <<"src", "..", "user.ts">>
          [] source = "../src/user.ts" -> <<"..", "src", "user.ts">>
          [] source = "../src/index.ts" -> <<"..", "src", "index.ts">>
          [] OTHER -> <<source>>]

\* The normal form of a relative path: "." dropped, ".." taking back the
\* part before it, kept where there is none.
RECURSIVE NormalParts(_)
NormalParts(parts) ==
    IF parts = <<>> THEN <<>>
    ELSE IF parts[Len(parts)] = "." THEN NormalParts(SubSeq(parts, 1, Len(parts) - 1))
    ELSE IF /\ parts[Len(parts)] = ".."
            /\ NormalParts(SubSeq(parts, 1, Len(parts) - 1)) # <<>>
            /\ NormalParts(SubSeq(parts, 1, Len(parts) - 1))
                   [Len(NormalParts(SubSeq(parts, 1, Len(parts) - 1)))] # ".."
    THEN SubSeq(NormalParts(SubSeq(parts, 1, Len(parts) - 1)), 1,
                Len(NormalParts(SubSeq(parts, 1, Len(parts) - 1))) - 1)
    ELSE Append(NormalParts(SubSeq(parts, 1, Len(parts) - 1)), parts[Len(parts)])

\* The name a consumer presents a source of its document under
\* (mapping.source, originalPositionFor(..).source, consumer.sources): the
\* name of the file in normal form.  path.resolve comes to the same file.
NormalSource(source) ==
    IF source \in {NullSource, Unlisted} THEN source
    ELSE CHOOSE name \in Range(SourceOrder) : PathParts[name] = NormalParts(PathParts[source])
NameOrder == <<userController, obfName, obfName2, next_, EmptyName>>

SourcesOf(segs) == {s.source : s \in segs} \ {NullSource}
NamesOf(segs) == {s.name : s \in segs} \ {NullName}

DocWith(segs, content) ==
    DocIn(segs, content, content # {},
          Listed(SourceOrder, SourcesOf(segs) \cup {c.source : c \in content}),
          Listed(NameOrder, NamesOf(segs)))
Doc(segs) == DocWith(segs, {})

\* The same document with its first source listed once more, after the
\* others, and the segments of that source pointing there.
Relisted(doc) ==
    [doc EXCEPT
        !.sources = Append(doc.sources, doc.sources[1]),
        !.segs = {IF s.source = doc.sources[1] THEN [s EXCEPT !.sourceNth = 2] ELSE s :
                     s \in doc.segs}]

\* The same document with its sources and names listed the other way round.
Reverse(seq) == [i \in 1..Len(seq) |-> seq[Len(seq) + 1 - i]]
TablesReversed(doc) ==
    [doc EXCEPT !.sources = Reverse(doc.sources), !.names = Reverse(doc.names)]

NoDoc(exists, envelope) ==
    [exists |-> exists, envelope |-> envelope, mappingsOk |-> FALSE, segs |-> {},
     content |-> {}, hasContent |-> FALSE, sources |-> <<>>, names |-> <<>>]
BadEnvelope == NoDoc(TRUE, "bad")
InvalidEnvelope == NoDoc(TRUE, "invalid")
BadMappings == [NoDoc(TRUE, "ok") EXCEPT !.sources = <<"user.ts">>]
Missing == NoDoc(FALSE, "bad")
\* chainSourceMaps returning null.
NullMap == NoDoc(FALSE, "null")

Malformed(doc) == doc.exists /\ (doc.envelope # "ok" \/ ~doc.mappingsOk)

DistinctPositions(segs) ==
    \A s, t \in segs : (s.gl = t.gl /\ s.gc = t.gc) => s = t

SegSets(universe) ==
    {S \in SUBSET universe : Cardinality(S) <= MaxSegs}

\* Segments of TypeScript maps (original .ts -> compiled .js).
TsSegments ==
    { Seg(5, 10, "user.ts", 2, 3, userController),
      Seg(5, 10, "user.ts", 2, 3, NullName),
      Seg(5, 10, "index.ts", 7, 0, EmptyName),
      Seg(5, 0, "user.ts", 1, 0, obfName2),
      Seg(5, 0, "index.ts", 3, 4, NullName),
      GenOnly(5, 10),
      GenOnly(5, 12),
      Seg(4, 2, "user.ts", 9, 1, next_) }

\* Segments of obfuscator maps (compiled .js -> obfuscated .js).
ObfSegments ==
    { Seg(98, 19, "user.js", 5, 10, obfName),
      Seg(98, 19, "user.js", 5, 10, NullName),
      Seg(98, 19, "user.js", 5, 14, obfName),
      Seg(98, 0, "user.js", 5, 3, NullName),
      Seg(98, 0, "user.js", 4, 7, obfName2),
      Seg(99, 0, "user.js", 6, 0, obfName),
      Seg(1, 0, "user.js", 4, 1, NullName),
      GenOnly(98, 19),
      GenOnly(98, 30) }

\* Two segments at one generated position, of different sources.
TsTie ==
    { Seg(5, 10, "user.ts", 2, 3, userController), Seg(5, 10, "index.ts", 7, 0, EmptyName) }
ObfTie ==
    { Seg(98, 19, "user.js", 5, 10, obfName), Seg(98, 19, "index.js", 5, 0, NullName) }

\* Lines of source files.
constUsers ==
    <<"c", "o", "n", "s", "t", " ", "u", "s", "e", "r", "s", " ", "=", " ", "[">>
idOne == <<" ", " ", "{", " ", "i", "d", ":", " ", "1", " ", "}">>
importExpress ==
    <<"i", "m", "p", "o", "r", "t", " ", "e", "x", "p", "r", "e", "s", "s">>
throwError ==
    <<"t", "h", "r", "o", "w", " ", "n", "e", "w", " ", "E", "r", "r", "o", "r", "(", ")", ";">>

userTsText ==
    { [source |-> "user.ts", nth |-> 1, n |-> 2, text |-> idOne] }

TsDocs ==
    {Doc(S) : S \in SegSets(TsSegments)}
    \cup {BadEnvelope, InvalidEnvelope, BadMappings, Doc(TsTie), TablesReversed(Doc(TsTie)),
          Relisted(Doc(TsTie)),
          DocWith({Seg(5, 10, "user.ts", 2, 3, userController)}, userTsText),
          Doc({Seg(5, 10, "src/../user.ts", 2, 3, userController)}),
          DocWith({Seg(5, 10, "./user.ts", 2, 3, userController)},
                  {[source |-> "./user.ts", nth |-> 1, n |-> 2, text |-> idOne]})}
ObfDocs ==
    {Doc(S) : S \in SegSets(ObfSegments)}
    \cup {BadEnvelope, InvalidEnvelope, BadMappings, Doc(ObfTie), TablesReversed(Doc(ObfTie)),
          Relisted(Doc(ObfTie))}

(***************************************************************************)
(* source-map library: SourceMapConsumer.originalPositionFor with the      *)
(* default bias (greatest lower bound): the mapping at the last generated  *)
(* position at or before the queried one, accepted only when it lies on    *)
(* the queried line.  The call decodes the stream when that has not been   *)
(* done, and throws when the stream does not decode, for a line below 1    *)
(* and for a column below 0.                                               *)
(***************************************************************************)
LexLeq(l1, c1, l2, c2) == l1 < l2 \/ (l1 = l2 /\ c1 <= c2)

Preceding(segs, line, column) == {s \in segs : LexLeq(s.gl, s.gc, line, column)}

\* The indexes of a segment into the sources and the names of its document;
\* past them for a segment without source or name.
SourceIndex(doc, s) ==
    IF s.source = NullSource THEN Len(doc.sources) + 2
    ELSE IF s.source = Unlisted THEN Len(doc.sources) + 1
    ELSE Listing(doc.sources, s.source, s.sourceNth)
NameIndex(doc, s) ==
    IF s.name.isNull THEN Len(doc.names) + 1 ELSE Listing(doc.names, s.name, s.nameNth)

\* The order the library sorts the mappings of a document in: by generated
\* position, then by the index of the source in the document's sources, a
\* mapping without source last, by original line and column, then by the
\* index of the name, a mapping without name last (as source-map 0.6 does;
\* taken to hold for the 0.7 the scripts require).
Rank(doc, s) ==
    <<s.gl, s.gc, SourceIndex(doc, s), s.ol, s.oc, NameIndex(doc, s)>>

Before(a, b) ==
    \E i \in 1..Len(a) : a[i] < b[i] /\ \A j \in 1..(i - 1) : a[j] = b[j]

\* The first of some mappings of a document in that order.
First(doc, segs) ==
    CHOOSE s \in segs : \A t \in segs : t = s \/ Before(Rank(doc, s), Rank(doc, t))

\* The mappings at the last generated position among segs.
Last(segs) == {s \in segs : \A t \in segs : LexLeq(t.gl, t.gc, s.gl, s.gc)}

PositionOf(m) == Position(NormalSource(m.source), m.ol, m.oc, m.name)

\* The mapping found is looked at only on the queried line; its source is
\* then taken from the sources, which throws for an index past them.
Accepted(line, m) ==
    IF m.gl # line THEN NullPosition
    ELSE IF m.source = Unlisted THEN Thrown
    ELSE PositionOf(m)

OriginalPositionFor(doc, line, column) ==
    IF ~doc.mappingsOk \/ line < 1 \/ column < 0 THEN Thrown
    ELSE IF Preceding(doc.segs, line, column) = {} THEN NullPosition
    ELSE Accepted(line, First(doc, Last(Preceding(doc.segs, line, column))))

(***************************************************************************)
(* chainSourceMaps                                                         *)
(***************************************************************************)
\* const finalName = originalPosition.name || mapping.name
FinalNamePreferObf(originalName, mappingName) ==
    IF Truthy(mappingName) THEN mappingName ELSE originalName
FinalName(originalName, mappingName) ==
    IF Truthy(originalName) THEN originalName ELSE mappingName

\* if (!mapping.source) return
Skipped(mapping) == mapping.source = NullSource

\* if (originalPosition.source)
FoundAlways(originalPosition) == TRUE
Found(originalPosition) == originalPosition.source # NullSource

\* generator.addMapping({generated, original, source, name})
AddedMappingUnnamed(mapping, originalPosition) ==
    Seg(mapping.gl, mapping.gc, originalPosition.source,
        originalPosition.line, originalPosition.column, NullName)

AddedMappingObfOriginal(mapping, originalPosition) ==
    Seg(mapping.gl, mapping.gc, originalPosition.source,
        mapping.ol, mapping.oc,
        FinalName(originalPosition.name, mapping.name))
AddedMapping(mapping, originalPosition) ==
    Seg(mapping.gl, mapping.gc, originalPosition.source,
        originalPosition.line, originalPosition.column,
        FinalName(originalPosition.name, mapping.name))

\* obfConsumer.eachMapping passes the mappings in the library's order.
RECURSIVE Sorted(_, _)
Sorted(doc, segs) ==
    IF segs = {} THEN <<>>
    ELSE <<First(doc, segs)>> \o Sorted(doc, segs \ {First(doc, segs)})

\* The callback of eachMapping on one mapping: the generator's mappings after it.
AddedAfter(list, ts, mapping) ==
    IF Skipped(mapping) \/ ~Found(OriginalPositionFor(ts, mapping.ol, mapping.oc))
    THEN list
    ELSE Append(list, AddedMapping(mapping, OriginalPositionFor(ts, mapping.ol, mapping.oc)))

RECURSIVE AddedOver(_, _, _)
AddedOver(list, ts, mappings) ==
    IF mappings = <<>> THEN list
    ELSE AddedOver(AddedAfter(list, ts, Head(mappings)), ts, Tail(mappings))

\* The body of obfConsumer.eachMapping over all of B's mappings.
ChainedList(ts, obf) == AddedOver(<<>>, ts, Sorted(obf, obf.segs))
ChainedSegments(ts, obf) == Range(ChainedList(ts, obf))

\* A source file next to the map: absent, present but failing to read, or
\* present with its lines [n, text].  The files are told apart by the path
\* path.resolve(sourceMapDir, source) gives, the source in normal form.
NoFile == [exists |-> FALSE, readable |-> FALSE, lines |-> {}]
Unreadable == [exists |-> TRUE, readable |-> FALSE, lines |-> {}]
File(lines) == [exists |-> TRUE, readable |-> TRUE, lines |-> lines]
FileOf(files, source) ==
    IF NormalSource(source) \in DOMAIN files THEN files[NormalSource(source)] ELSE NoFile

ContentOf(source, lines) ==
    {[source |-> source, nth |-> 1, n |-> l.n, text |-> l.text] : l \in lines}

\* One turn of the forEach over tsMapContent.sources when the map has no
\* sourcesContent: "set" (setSourceContent), "skip", or "throw" out of
\* chainSourceMaps' try block.
ReadOutcome(file) ==
    IF ~file.exists THEN "skip" ELSE IF file.readable THEN "set" ELSE "skip"

\* The lines of the entry of sourcesContent at an index of the sources.
EntryAt(doc, index) ==
    {c \in doc.content :
        c.source = doc.sources[index] /\ c.nth = NthAt(doc.sources, index)}

\* generator.setSourceContent(source, content): the content of the source
\* is replaced, and removed when content is null (no lines).
SetSourceContent(content, source, lines) ==
    {c \in content : c.source # source} \cup ContentOf(source, lines)

\* The generator's contents after the turn of the forEach for the source
\* at an index of A's sources.
ContentAfter(content, doc, files, index) ==
    IF doc.hasContent
    THEN SetSourceContent(content, doc.sources[index], EntryAt(doc, index))
    ELSE IF ReadOutcome(FileOf(files, doc.sources[index])) = "set"
    THEN SetSourceContent(content, doc.sources[index], FileOf(files, doc.sources[index]).lines)
    ELSE content

\* The generator's contents after the forEach over A's sources from an
\* index on.
RECURSIVE ContentOver(_, _, _, _)
ContentOver(content, doc, files, index) ==
    IF index > Len(doc.sources) THEN content
    ELSE ContentOver(ContentAfter(content, doc, files, index), doc, files, index + 1)

\* The first occurrences of the values of a list, in its order.
RECURSIVE Distinct(_)
Distinct(seq) ==
    IF seq = <<>> THEN <<>>
    ELSE IF seq[Len(seq)] \in Range(Distinct(SubSeq(seq, 1, Len(seq) - 1)))
    THEN Distinct(SubSeq(seq, 1, Len(seq) - 1))
    ELSE Append(Distinct(SubSeq(seq, 1, Len(seq) - 1)), seq[Len(seq)])

\* generator.toString(): the mappings added, the sources and names in the
\* order addMapping met them, and the contents set under the names of these
\* sources (a content set under another spelling of a name is not found).
Generated(list, content) ==
    DocIn(Range(list),
          {c \in content : \E a \in Range(list) : a.source = c.source},
          content # {},
          Distinct([i \in 1..Len(list) |-> list[i].source]),
          Distinct(SelectSeq([i \in 1..Len(list) |-> list[i].name], LAMBDA n : ~n.isNull)))

\* What throws at lines 106-107, and what the awaits of lines 110-111 throw.
ReadFails(doc) == ~doc.exists \/ doc.envelope = "bad"
Rejected(doc) == doc.envelope = "invalid"

\* What makes the try block throw: reading or parsing either file,
\* constructing either consumer, decoding B's stream in eachMapping, and
\* originalPositionFor on A (reached only for a mapping of B that has a
\* source), which decodes A's stream.
ChainThrows(ts, obf) ==
    \/ ReadFails(ts) \/ ReadFails(obf)
    \/ Rejected(ts) \/ Rejected(obf)
    \/ ~obf.mappingsOk
    \/ \E m \in obf.segs : m.source = Unlisted
    \/ \E m \in obf.segs : ~Skipped(m) /\ OriginalPositionFor(ts, m.ol, m.oc).thrown

chainSourceMaps(ts, obf, files) ==
    IF ChainThrows(ts, obf) THEN NullMap
    ELSE Generated(ChainedList(ts, obf), ContentOver({}, ts, files, 1))

(***************************************************************************)
(* chainSourceMaps applied to one pair of documents.                       *)
(***************************************************************************)
BatchIdle ==
    /\ backup = <<>> /\ dist = <<>> /\ dist0 = <<>> /\ outcome = <<>>
    /\ chainedCount = 0 /\ failedCount = 0 /\ fileIdx = 1 /\ bpc = "idle"
    /\ backupDir = FALSE /\ script = "none"

\* tsMapContent before it is read, and as parsed from a document.
NoJson == [sources |-> <<>>, hasContent |-> FALSE]
JsonOf(doc) == [sources |-> doc.sources, hasContent |-> doc.hasContent]

NoFiles == [s \in {} |-> NoFile]

ComposeIdle ==
    /\ tsDoc = NullMap /\ obfDoc = NullMap /\ chainedMap = NullMap /\ cpc = "idle"
    /\ srcFiles = NoFiles

TraceIdle ==
    /\ stackTrace = <<>> /\ sourcemaps = <<>> /\ results = <<>> /\ queried = <<>>
    /\ lineIdx = 1 /\ tpc = "idle"
    /\ platform = "none" /\ mapPaths = <<>> /\ successCount = 0 /\ totalFrames = 0

StepIdle ==
    /\ spc = "idle" /\ tsJson = NoJson
    /\ tsConsumer = "none" /\ obfConsumer = "none"
    /\ srcIdx = 1 /\ genContent = {} /\ todo = {} /\ added = <<>> /\ tsUses = <<>>

CodecIdle ==
    /\ wire = <<>> /\ decoded = <<>> /\ rewire = <<>> /\ redecoded = <<>>
    /\ kpc = "idle"

\* The identity mapping over the file A generates: at each generated
\* position of A a segment that maps the position to itself in that file,
\* under the name A has there.
IdentityMapping(doc) ==
    Doc({Seg(s.gl, s.gc, "user.js", s.gl, s.gc, s.name) : s \in doc.segs})

IdentityFor(doc) == IF Malformed(doc) THEN {} ELSE {IdentityMapping(doc)}

\* The source files next to A: user.ts and index.ts, each absent, failing to
\* read, or holding its lines.
StepSources == {"user.ts", "index.ts"}
userTsLines == { [n |-> 1, text |-> constUsers], [n |-> 2, text |-> idOne] }
indexTsLines == { [n |-> 3, text |-> importExpress] }
SourceFiles ==
    {f \in [StepSources -> {NoFile, Unreadable, File(userTsLines), File(indexTsLines)}] :
        /\ f["user.ts"] # File(indexTsLines)
        /\ f["index.ts"] # File(userTsLines)}
ComposeFiles ==
    {f \in SourceFiles : f["index.ts"] = NoFile /\ f["user.ts"] # Unreadable}

InitCompose ==
    /\ tsDoc \in TsDocs
    /\ obfDoc \in ObfDocs \cup IdentityFor(tsDoc)
    /\ srcFiles \in ComposeFiles
    /\ chainedMap = NullMap
    /\ cpc = "call"
    /\ BatchIdle
    /\ TraceIdle
    /\ StepIdle
    /\ CodecIdle

\* Control after the two reads of lines 106-107, the catch block when
\* either throws, and what the call has returned by then.
AfterReads(ts, obf) == IF ReadFails(ts) \/ ReadFails(obf) THEN "returned" ELSE "awaitTs"

\* chainSourceMaps from the call to its first await (line 110).
ComposeCall ==
    /\ cpc = "call"
    /\ cpc' = AfterReads(tsDoc, obfDoc)
    /\ chainedMap' = NullMap
    /\ UNCHANGED <<tsDoc, obfDoc, srcFiles, batchVars, traceVars, stepVars, codecVars>>

\* From the first await to the second (line 111): the consumer of A is
\* there, or its construction threw.
ComposeAwaitTs ==
    /\ cpc = "awaitTs"
    /\ cpc' = IF Rejected(tsDoc) THEN "returned" ELSE "awaitObf"
    /\ UNCHANGED <<tsDoc, obfDoc, chainedMap, srcFiles, batchVars, traceVars, stepVars, codecVars>>

\* From the second await to the return: the source files are read at this
\* step (lines 119-140), the mappings are chained and the map is generated.
ComposeAwaitObf ==
    /\ cpc = "awaitObf"
    /\ cpc' = "returned"
    /\ chainedMap' = chainSourceMaps(tsDoc, obfDoc, srcFiles)
    /\ UNCHANGED <<tsDoc, obfDoc, srcFiles, batchVars, traceVars, stepVars, codecVars>>

NextCompose == ComposeCall \/ ComposeAwaitTs \/ ComposeAwaitObf

SpecCompose == InitCompose /\ [][NextCompose]_vars

\* A mapping of B that is chained: it has a source and A resolves its
\* original position to a source.
Resolvable(ts, m) ==
    m.source # NullSource /\ OriginalPositionFor(ts, m.ol, m.oc).source # NullSource

At(segs, gl, gc) == {s \in segs : s.gl = gl /\ s.gc = gc}

\* C1: every mapping of B with an original position that A resolves to
\* (source, line, column) gives the chained map a segment at B's generated
\* position with exactly that original position, and the chained map resolves
\* B's generated position to it when B has no other mapping there.
C1_ChainedMapResolvesThroughTs ==
    cpc = "returned" =>
        \A m \in obfDoc.segs :
            Resolvable(tsDoc, m) =>
                /\ chainedMap.envelope = "ok"
                /\ \E c \in At(chainedMap.segs, m.gl, m.gc) :
                       /\ c.source = OriginalPositionFor(tsDoc, m.ol, m.oc).source
                       /\ c.ol = OriginalPositionFor(tsDoc, m.ol, m.oc).line
                       /\ c.oc = OriginalPositionFor(tsDoc, m.ol, m.oc).column
                /\ At(obfDoc.segs, m.gl, m.gc) = {m} =>
                       /\ OriginalPositionFor(chainedMap, m.gl, m.gc).source =
                              OriginalPositionFor(tsDoc, m.ol, m.oc).source
                       /\ OriginalPositionFor(chainedMap, m.gl, m.gc).line =
                              OriginalPositionFor(tsDoc, m.ol, m.oc).line
                       /\ OriginalPositionFor(chainedMap, m.gl, m.gc).column =
                              OriginalPositionFor(tsDoc, m.ol, m.oc).column

\* The end-to-end scenario: A maps (5,10) to user.ts:2:3 as userController,
\* B maps (98,19) to (5,10) as _0x3a4f2b, and the chained map resolves (98,19)
\* to user.ts:2:3.
C1_Witness ==
    /\ cpc = "returned"
    /\ Seg(5, 10, "user.ts", 2, 3, userController) \in tsDoc.segs
    /\ Seg(98, 19, "user.js", 5, 10, obfName) \in obfDoc.segs
    /\ OriginalPositionFor(chainedMap, 98, 19).source = "user.ts"
    /\ OriginalPositionFor(chainedMap, 98, 19).line = 2
    /\ OriginalPositionFor(chainedMap, 98, 19).column = 3

\* C2: every segment of the chained map comes from a mapping of B at its
\* generated position, and its name is the name A resolved for that
\* mapping's original position when A resolved a (non-empty) name, and the
\* mapping's own name otherwise.
C2_OriginalNamePreferred ==
    cpc = "returned" =>
        \A c \in chainedMap.segs :
            \E m \in At(obfDoc.segs, c.gl, c.gc) :
                /\ Resolvable(tsDoc, m)
                /\ c.source = OriginalPositionFor(tsDoc, m.ol, m.oc).source
                /\ c.ol = OriginalPositionFor(tsDoc, m.ol, m.oc).line
                /\ c.oc = OriginalPositionFor(tsDoc, m.ol, m.oc).column
                /\ c.name = IF Truthy(OriginalPositionFor(tsDoc, m.ol, m.oc).name)
                            THEN OriginalPositionFor(tsDoc, m.ol, m.oc).name
                            ELSE m.name

\* A chained segment for which A and B both carry a name, and they differ.
C2_Witness ==
    /\ cpc = "returned"
    /\ \E c \in chainedMap.segs : \E m \in obfDoc.segs :
           /\ m.gl = c.gl /\ m.gc = c.gc
           /\ Truthy(m.name)
           /\ Truthy(OriginalPositionFor(tsDoc, m.ol, m.oc).name)
           /\ m.name # OriginalPositionFor(tsDoc, m.ol, m.oc).name
           /\ c.name = userController

\* C3: the chained map has a segment at a generated position only if B has a
\* mapping there with an original position that A resolves to a source; a
\* mapping of B without original position, or one A does not resolve, leaves
\* no segment: the chained map has at most as many segments at a position as
\* B has resolvable mappings there.
C3_UnresolvedDropped ==
    cpc = "returned" =>
        /\ \A c \in chainedMap.segs :
               /\ c.source # NullSource
               /\ \E m \in At(obfDoc.segs, c.gl, c.gc) : Resolvable(tsDoc, m)
        /\ \A m \in obfDoc.segs :
               Cardinality(At(chainedMap.segs, m.gl, m.gc)) <=
                   Cardinality({r \in At(obfDoc.segs, m.gl, m.gc) : Resolvable(tsDoc, r)})

\* A successful composition in which B has a mapping without original
\* position and a mapping whose original position A does not resolve.
C3_Witness ==
    /\ cpc = "returned"
    /\ chainedMap.envelope = "ok"
    /\ tsDoc.segs # {}
    /\ \E m \in obfDoc.segs : m.source = NullSource
    /\ \E m \in obfDoc.segs :
           /\ m.source # NullSource
           /\ OriginalPositionFor(tsDoc, m.ol, m.oc).source = NullSource

(***************************************************************************)
(* main: the loop over the maps found in the backup directory.             *)
(***************************************************************************)
BatchTsDocs ==
    { BadEnvelope, InvalidEnvelope, BadMappings, Doc({}),
      Doc({Seg(5, 10, "user.ts", 2, 3, userController)}),
      DocWith({Seg(5, 10, "user.ts", 2, 3, userController)}, ContentOf("user.ts", userTsLines)) }

BatchObfDocs ==
    { Missing, BadEnvelope, BadMappings, Doc({}),
      Doc({GenOnly(98, 19)}),
      Doc({Seg(98, 19, "user.js", 5, 10, obfName)}) }

\* The branch of the loop body: existsSync(obfMapPath), then if (chainedMap).
Branch(obf, chained) ==
    IF ~obf.exists THEN "notfound"
    ELSE IF chained.envelope = "ok" THEN "chained" ELSE "failed"

\* failedCount++ on both failure branches.
FailedAfterUncountedNotFound(count, branch) ==
    IF branch = "failed" THEN count + 1 ELSE count
FailedAfter(count, branch) ==
    IF branch \in {"notfound", "failed"} THEN count + 1 ELSE count

\* chainedCount++
ChainedAfter(count, branch) ==
    IF branch = "chained" THEN count + 1 ELSE count

\* fs.writeFileSync(obfMapPath, chainedMap), only on the success branch.
DistFileAfterWrittenAlways(obf, chained, branch) ==
    IF branch = "notfound" THEN obf ELSE chained
DistFileAfter(obf, chained, branch) ==
    IF branch = "chained" THEN chained ELSE obf

Pending(n) == [i \in 1..n |-> "pending"]

\* The chain script started on its own: a backup directory, or none, and a
\* dist directory.
InitChain ==
    /\ script = "chain"
    /\ backupDir \in BOOLEAN
    /\ \E n \in 0..MaxFiles :
           /\ backup \in [1..n -> BatchTsDocs]
           /\ dist \in [1..n -> BatchObfDocs]
           /\ outcome = Pending(n)
    /\ ~backupDir => backup = <<>>

\* The build script started: tsc is about to run; a backup directory may be
\* left from an earlier run.
InitBuild ==
    /\ script = "build"
    /\ backupDir \in BOOLEAN
    /\ backup \in {<<>>, <<Doc({})>>}
    /\ ~backupDir => backup = <<>>
    /\ dist = <<>>
    /\ outcome = Pending(Len(backup))

InitBatch ==
    /\ InitChain \/ InitBuild
    /\ dist0 = dist
    /\ chainedCount = 0
    /\ failedCount = 0
    /\ fileIdx = 1
    /\ bpc = IF script = "build" THEN "build" ELSE "start"
    /\ tsDoc = NullMap /\ obfDoc = NullMap /\ chainedMap = NullMap /\ cpc = "idle"
    /\ srcFiles \in ComposeFiles
    /\ TraceIdle
    /\ StepIdle
    /\ CodecIdle

BatchFrame == UNCHANGED <<srcFiles, traceVars, stepVars, codecVars>>

\* deleteDir(BACKUP_DIR)
NoBackup == backup' = <<>> /\ backupDir' = FALSE

\* The maps tsc writes, and what the obfuscator makes of a map of dist: it
\* leaves it or writes its own.
TscDocs == BatchTsDocs \ {BadEnvelope, InvalidEnvelope, BadMappings}
Obfuscated(maps) ==
    {d \in [1..Len(maps) -> BatchObfDocs \cup Range(maps)] :
        \A i \in 1..Len(maps) : d[i] = maps[i] \/ d[i] \in BatchObfDocs \ {Missing}}

\* The catch block of the build script: the backup is deleted, exit(1).
\* The command that failed may have written to dist before it did.
BuildFails ==
    /\ NoBackup
    /\ bpc' = "failed"
    /\ UNCHANGED <<dist0, outcome, chainedCount, failedCount, fileIdx, script, composeVars>>
    /\ BatchFrame

\* execSync('tsc'), then the backup of the maps it wrote: the old backup is
\* deleted and each map of dist copied; the backup directory is made by the
\* first copy.  tsc failing goes to the catch block.
BuildBackup ==
    /\ script = "build"
    /\ bpc = "build"
    /\ \E n \in 0..MaxFiles : dist' \in [1..n -> TscDocs]
    /\ \/ BuildFails
       \/ /\ backup' = dist'
          /\ backupDir' = (dist' # <<>>)
          /\ outcome' = Pending(Len(dist'))
          /\ bpc' = "obfuscate"
          /\ UNCHANGED <<dist0, chainedCount, failedCount, fileIdx, script, composeVars>>
          /\ BatchFrame

\* execSync('javascript-obfuscator dist --output dist ...'): each map of dist
\* is left or replaced by the obfuscator's.  Failing goes to the catch block.
BuildObfuscate ==
    /\ script = "build"
    /\ bpc = "obfuscate"
    /\ dist' \in Obfuscated(dist)
    /\ \/ BuildFails
       \/ /\ bpc' = "start"
          /\ UNCHANGED <<backup, backupDir, dist0, outcome, chainedCount, failedCount, fileIdx,
                         script, composeVars>>
          /\ BatchFrame

\* main of the chain script up to the loop: exit(1) without the backup
\* directory, else findMapFiles.
MainStart ==
    /\ bpc = "start"
    /\ bpc' = IF backupDir THEN "loop" ELSE "exit"
    /\ dist0' = dist
    /\ UNCHANGED <<backup, dist, outcome, chainedCount, failedCount, fileIdx, backupDir, script,
                   composeVars>>
    /\ BatchFrame

\* One turn of the loop up to the await of line 220: existsSync(obfMapPath),
\* and on the call chainSourceMaps up to its first await.
MainCall ==
    /\ bpc = "loop"
    /\ fileIdx <= Len(backup)
    /\ IF ~dist[fileIdx].exists
       THEN /\ failedCount' = FailedAfter(failedCount, Branch(dist[fileIdx], NullMap))
            /\ outcome' = [outcome EXCEPT ![fileIdx] = Branch(dist[fileIdx], NullMap)]
            /\ fileIdx' = fileIdx + 1
            /\ UNCHANGED <<bpc, composeVars>>
       ELSE /\ tsDoc' = backup[fileIdx]
            /\ obfDoc' = dist[fileIdx]
            /\ cpc' = AfterReads(backup[fileIdx], dist[fileIdx])
            /\ chainedMap' = NullMap
            /\ bpc' = "await"
            /\ UNCHANGED <<failedCount, outcome, fileIdx, srcFiles>>
    /\ UNCHANGED <<backup, dist, dist0, chainedCount, backupDir, script>>
    /\ UNCHANGED <<traceVars, stepVars, codecVars>>

\* The rest of the turn, when chainSourceMaps has returned.
MainResume ==
    /\ bpc = "await"
    /\ cpc = "returned"
    /\ dist' = [dist EXCEPT ![fileIdx] =
                    DistFileAfter(dist[fileIdx], chainedMap, Branch(dist[fileIdx], chainedMap))]
    /\ chainedCount' = ChainedAfter(chainedCount, Branch(dist[fileIdx], chainedMap))
    /\ failedCount' = FailedAfter(failedCount, Branch(dist[fileIdx], chainedMap))
    /\ outcome' = [outcome EXCEPT ![fileIdx] = Branch(dist[fileIdx], chainedMap)]
    /\ fileIdx' = fileIdx + 1
    /\ bpc' = "loop"
    /\ cpc' = "idle"
    /\ UNCHANGED <<backup, dist0, backupDir, script, tsDoc, obfDoc, chainedMap>>
    /\ BatchFrame

MainLoopEnd ==
    /\ bpc = "loop"
    /\ fileIdx > Len(backup)
    /\ bpc' = "done"
    /\ UNCHANGED <<backup, dist, dist0, outcome, chainedCount, failedCount, fileIdx, backupDir,
                   script, composeVars>>
    /\ BatchFrame

\* Back in the build script when the chain script has ended: the backup is
\* deleted, after the script's exit(1) in the catch block.
BuildCleanup ==
    /\ script = "build"
    /\ bpc \in {"done", "exit"}
    /\ NoBackup
    /\ bpc' = IF bpc = "done" THEN "built" ELSE "failed"
    /\ UNCHANGED <<dist, dist0, outcome, chainedCount, failedCount, fileIdx, script, composeVars>>
    /\ BatchFrame

Next ==
    \/ BuildBackup \/ BuildObfuscate \/ BuildCleanup
    \/ MainStart \/ MainCall \/ MainResume \/ MainLoopEnd
    \/ ComposeAwaitTs \/ ComposeAwaitObf

Spec == InitBatch /\ [][Next]_vars

\* C9: the loop goes through every map found whatever happened to the earlier
\* ones, each iteration counting its map exactly once, so that at the end
\* chainedCount + failedCount is the number of maps found.
C9_EveryMapTallied ==
    /\ bpc \in {"loop", "await"} => chainedCount + failedCount = fileIdx - 1
    /\ \A i \in 1..Len(backup) : i < fileIdx => outcome[i] # "pending"
    /\ bpc = "done" =>
           /\ chainedCount + failedCount = Len(backup)
           /\ \A i \in 1..Len(backup) : outcome[i] # "pending"

\* The loop finished after a first map that has no obfuscated map and a
\* second that does not decode.
C9_Witness ==
    /\ bpc = "done"
    /\ Len(backup) >= 2
    /\ outcome[1] = "notfound"
    /\ outcome[2] = "failed"
    /\ failedCount >= 2

\* C10: a pair of which either document is malformed is counted as failed and
\* its map in the dist directory is left as it was (chainSourceMaps returned
\* null and nothing was written).
C10_MalformedPairFails ==
    \A i \in 1..Len(backup) :
        (/\ outcome[i] # "pending"
         /\ dist0[i].exists
         /\ (Malformed(backup[i]) \/ Malformed(dist0[i]))) =>
            /\ outcome[i] = "failed"
            /\ dist[i] = dist0[i]

\* The steps of the chain script.
Chaining == bpc \in {"start", "loop", "await"}

\* C15 as stated: no step of the chain script changes a map of the backup
\* directory or a map of the dist directory.
C15_InputsNeverChange ==
    [][Chaining => (backup' = backup /\ dist' = dist)]_vars

\* C15, amended: no step of the chain script changes a map of the backup
\* directory (A); a map of the dist directory (B) changes only in the turn
\* that chains it, when chainSourceMaps returned a document, and then into
\* that document.
C15_OnlyChainedMapReplaced ==
    [][Chaining =>
           /\ backup' = backup
           /\ \A i \in 1..Len(dist) :
                  dist'[i] # dist[i] =>
                      /\ i = fileIdx
                      /\ outcome'[i] = "chained"
                      /\ dist'[i] = chainSourceMaps(backup[i], dist[i], srcFiles)]_vars

\* A run in which the first map was chained and its dist map replaced by the
\* chained document, and the second failed and its dist map stayed.
C15_Witness ==
    /\ bpc = "done"
    /\ Len(backup) >= 2
    /\ outcome[1] = "chained"
    /\ dist[1] # dist0[1]
    /\ dist[1] = chainSourceMaps(backup[1], dist0[1], srcFiles)
    /\ outcome[2] = "failed"
    /\ dist[2] = dist0[2]

\* Generated positions at which two maps are compared: every segment's own
\* position, the column after it, and the start of its line and of the next.
Probes(segs) ==
    UNION {{<<s.gl, s.gc>>, <<s.gl, s.gc + 1>>, <<s.gl, 0>>, <<s.gl + 1, 0>>} : s \in segs}

Equivalent(docA, docC) ==
    \A p \in Probes(docA.segs \cup docC.segs) :
        OriginalPositionFor(docC, p[1], p[2]) = OriginalPositionFor(docA, p[1], p[2])

ComposedWithIdentity ==
    /\ cpc = "returned"
    /\ ~Malformed(tsDoc)
    /\ obfDoc = IdentityMapping(tsDoc)

\* C14 as stated: A chained with the identity mapping resolves every
\* generated position to the same source, line, column and name as A.
C14_IdentityYieldsEquivalent ==
    ComposedWithIdentity =>
        /\ chainedMap.envelope = "ok"
        /\ Equivalent(tsDoc, chainedMap)

SamePlace(a, b) == a.source = b.source /\ a.line = b.line /\ a.column = b.column

\* C14, amended: every position A resolves to a source resolves to the same
\* source, line and column in A chained with the identity mapping; when A has
\* no two segments at one generated position, the chained map has exactly
\* the segments of A that have a source, their sources under the names A
\* resolves them to, and resolves these positions to the same name too,
\* and it is equivalent to A when moreover A has no segment without a
\* source.
C14_IdentityKeepsResolved ==
    ComposedWithIdentity =>
        /\ chainedMap.envelope = "ok"
        /\ \A p \in Probes(tsDoc.segs) :
               OriginalPositionFor(tsDoc, p[1], p[2]).source # NullSource =>
                   SamePlace(OriginalPositionFor(chainedMap, p[1], p[2]),
                             OriginalPositionFor(tsDoc, p[1], p[2]))
        /\ DistinctPositions(tsDoc.segs) =>
               /\ chainedMap.segs =
                      {[s EXCEPT !.source = NormalSource(s.source)] :
                          s \in {t \in tsDoc.segs : t.source # NullSource}}
               /\ \A p \in Probes(tsDoc.segs) :
                      OriginalPositionFor(tsDoc, p[1], p[2]).source # NullSource =>
                          OriginalPositionFor(chainedMap, p[1], p[2]) =
                              OriginalPositionFor(tsDoc, p[1], p[2])
               /\ (\A s \in tsDoc.segs : s.source # NullSource) =>
                      Equivalent(tsDoc, chainedMap)

\* A with a named segment followed on its line by a segment without a
\* source: chained with the identity, (5,10) resolves to user.ts although A
\* resolves it to nothing, while (5,0) resolves as in A.
C14_Witness ==
    /\ ComposedWithIdentity
    /\ tsDoc.segs = {Seg(5, 0, "user.ts", 1, 0, obfName2), GenOnly(5, 10)}
    /\ OriginalPositionFor(tsDoc, 5, 10).source = NullSource
    /\ OriginalPositionFor(chainedMap, 5, 10).source = "user.ts"
    /\ OriginalPositionFor(chainedMap, 5, 0) = OriginalPositionFor(tsDoc, 5, 0)

(***************************************************************************)
(* chainSourceMaps, statement by statement.                                *)
(***************************************************************************)
\* The statements of the try block.
Statements ==
    <<"readTs", "readObf", "newTs", "newObf", "generator", "content", "each", "destroy", "return">>

After(order, stmt) ==
    IF IndexIn(order, stmt) = Len(order) THEN "returned" ELSE order[IndexIn(order, stmt) + 1]

\* The statement control goes to when a statement completes.
Following(stmt) == After(Statements, stmt)

TwoSources ==
    Doc({Seg(5, 10, "user.ts", 2, 3, userController), Seg(5, 0, "index.ts", 3, 4, NullName)})

StepTsDocs ==
    { BadEnvelope, InvalidEnvelope, BadMappings,
      Doc({Seg(5, 10, "user.ts", 2, 3, userController)}),
      TwoSources,
      TablesReversed(TwoSources),
      TablesReversed(Doc(TsTie)),
      Relisted(DocWith({Seg(5, 10, "user.ts", 2, 3, userController)},
                       ContentOf("user.ts", userTsLines))),
      DocWith({Seg(5, 10, "user.ts", 2, 3, userController)},
              ContentOf("user.ts", userTsLines)),
      DocWith({Seg(5, 10, "user.ts", 2, 3, NullName), Seg(5, 0, "index.ts", 3, 4, NullName)},
              ContentOf("index.ts", indexTsLines)),
      [Doc({Seg(5, 10, "user.ts", 2, 3, userController)}) EXCEPT !.hasContent = TRUE],
      Doc({Seg(5, 10, "./user.ts", 2, 3, userController)}),
      Doc({Seg(5, 10, "./user.ts", 2, 3, userController), Seg(5, 0, "user.ts", 1, 0, NullName)}),
      DocWith({Seg(5, 10, "src/../user.ts", 2, 3, userController)},
              ContentOf("src/../user.ts", userTsLines)) }

StepObfDocs ==
    { BadEnvelope, InvalidEnvelope, BadMappings,
      Doc({GenOnly(98, 0)}),
      Doc({Seg(98, 19, "user.js", 5, 10, obfName)}),
      Doc({Seg(98, 0, "user.js", 5, 3, NullName), Seg(98, 19, "user.js", 5, 10, obfName)}),
      Doc({GenOnly(98, 0), Seg(99, 0, "user.js", 6, 0, obfName)}) }

InitSteps ==
    /\ tsDoc \in StepTsDocs
    /\ obfDoc \in StepObfDocs
    /\ tsJson = NoJson
    /\ srcFiles \in SourceFiles
    /\ chainedMap = NullMap
    /\ cpc = "steps"
    /\ spc = "readTs"
    /\ tsConsumer = "none"
    /\ obfConsumer = "none"
    /\ srcIdx = 1
    /\ genContent = {}
    /\ todo = obfDoc.segs
    /\ added = <<>>
    /\ tsUses = <<>>
    /\ BatchIdle
    /\ TraceIdle
    /\ CodecIdle

StepFrame == UNCHANGED <<tsDoc, obfDoc, cpc, srcFiles, batchVars, traceVars, codecVars>>

\* const tsMapContent = JSON.parse(fs.readFileSync(tsSourceMapPath))
ReadTs ==
    /\ spc = "readTs"
    /\ IF ReadFails(tsDoc)
       THEN spc' = "caught" /\ UNCHANGED tsJson
       ELSE spc' = Following("readTs") /\ tsJson' = JsonOf(tsDoc)
    /\ UNCHANGED <<chainedMap, tsConsumer, obfConsumer, srcIdx, genContent, todo, added, tsUses>>
    /\ StepFrame

\* const obfMapContent = JSON.parse(fs.readFileSync(obfSourceMapPath))
ReadObf ==
    /\ spc = "readObf"
    /\ spc' = IF ReadFails(obfDoc) THEN "caught" ELSE Following("readObf")
    /\ UNCHANGED <<chainedMap, tsJson, tsConsumer, obfConsumer, srcIdx, genContent, todo, added,
                   tsUses>>
    /\ StepFrame

\* await new SourceMapConsumer(tsMapContent)
NewTs ==
    /\ spc = "newTs"
    /\ IF Rejected(tsDoc)
       THEN spc' = "caught" /\ UNCHANGED tsConsumer
       ELSE spc' = Following("newTs") /\ tsConsumer' = "constructed"
    /\ UNCHANGED <<chainedMap, tsJson, obfConsumer, srcIdx, genContent, todo, added, tsUses>>
    /\ StepFrame

\* await new SourceMapConsumer(obfMapContent)
NewObf ==
    /\ spc = "newObf"
    /\ IF Rejected(obfDoc)
       THEN spc' = "caught" /\ UNCHANGED obfConsumer
       ELSE spc' = Following("newObf") /\ obfConsumer' = "constructed"
    /\ UNCHANGED <<chainedMap, tsJson, tsConsumer, srcIdx, genContent, todo, added, tsUses>>
    /\ StepFrame

\* new SourceMapGenerator(...), and the two destroy() calls.
Plain(stmt) ==
    /\ spc = stmt
    /\ spc' = Following(stmt)
    /\ UNCHANGED <<chainedMap, tsJson, tsConsumer, obfConsumer, srcIdx, genContent, todo, added,
                   tsUses>>
    /\ StepFrame

NewGenerator == Plain("generator")
Destroy == Plain("destroy")

\* One turn of tsMapContent.sources.forEach.
ContentTurn ==
    /\ spc = "content"
    /\ srcIdx <= Len(tsJson.sources)
    /\ IF /\ ~tsJson.hasContent
          /\ ReadOutcome(FileOf(srcFiles, tsJson.sources[srcIdx])) = "throw"
       THEN spc' = "caught" /\ UNCHANGED genContent
       ELSE /\ spc' = spc
            /\ genContent' = ContentAfter(genContent, tsDoc, srcFiles, srcIdx)
    /\ srcIdx' = srcIdx + 1
    /\ UNCHANGED <<chainedMap, tsJson, tsConsumer, obfConsumer, todo, added, tsUses>>
    /\ StepFrame

ContentEnd ==
    /\ spc = "content"
    /\ srcIdx > Len(tsJson.sources)
    /\ spc' = Following("content")
    /\ UNCHANGED <<chainedMap, tsJson, tsConsumer, obfConsumer, srcIdx, genContent, todo, added,
                   tsUses>>
    /\ StepFrame

\* obfConsumer.eachMapping decoding B's stream, which may throw.
EachDecode ==
    /\ spc = "each"
    /\ obfConsumer # "decoded"
    /\ IF obfDoc.mappingsOk
       THEN obfConsumer' = "decoded" /\ spc' = spc
       ELSE obfConsumer' = obfConsumer /\ spc' = "caught"
    /\ UNCHANGED <<chainedMap, tsJson, tsConsumer, srcIdx, genContent, todo, added, tsUses>>
    /\ StepFrame

\* The callback on the next mapping of B, up to its call of
\* tsConsumer.originalPositionFor (line 150): a mapping without source
\* returns at once; the call is issued on the consumer as it is then.
EachMapping ==
    /\ spc = "each"
    /\ obfConsumer = "decoded"
    /\ todo # {}
    /\ \E m \in {First(obfDoc, todo)} :
           IF m.source = Unlisted
           THEN spc' = "caught" /\ UNCHANGED <<todo, tsUses>>
           ELSE IF Skipped(m)
           THEN todo' = todo \ {m} /\ UNCHANGED <<spc, tsUses>>
           ELSE spc' = "lookup" /\ tsUses' = Append(tsUses, tsConsumer) /\ UNCHANGED todo
    /\ UNCHANGED <<chainedMap, tsJson, tsConsumer, obfConsumer, srcIdx, genContent, added>>
    /\ StepFrame

\* Inside originalPositionFor, on a consumer whose stream has not been
\* decoded: the line and the column are checked, then A's stream is decoded,
\* which may throw.
OriginalDecode ==
    /\ spc = "lookup"
    /\ tsConsumer = "constructed"
    /\ \E m \in {First(obfDoc, todo)} :
           IF m.ol < 1 \/ m.oc < 0 \/ ~tsDoc.mappingsOk
           THEN spc' = "caught" /\ UNCHANGED tsConsumer
           ELSE tsConsumer' = "decoded" /\ UNCHANGED spc
    /\ UNCHANGED <<chainedMap, tsJson, obfConsumer, srcIdx, genContent, todo, added, tsUses>>
    /\ StepFrame

\* originalPositionFor answering from the decoded mappings of A, and the
\* rest of the callback (lines 155-173).
OriginalAnswer ==
    /\ spc = "lookup"
    /\ tsConsumer = "decoded"
    /\ \E m \in {First(obfDoc, todo)} :
           IF OriginalPositionFor(tsDoc, m.ol, m.oc).thrown
           THEN spc' = "caught" /\ UNCHANGED <<todo, added>>
           ELSE /\ spc' = "each"
                /\ todo' = todo \ {m}
                /\ added' = AddedAfter(added, tsDoc, m)
    /\ UNCHANGED <<chainedMap, tsJson, tsConsumer, obfConsumer, srcIdx, genContent, tsUses>>
    /\ StepFrame

EachEnd ==
    /\ spc = "each"
    /\ obfConsumer = "decoded"
    /\ todo = {}
    /\ spc' = Following("each")
    /\ UNCHANGED <<chainedMap, tsJson, tsConsumer, obfConsumer, srcIdx, genContent, todo, added,
                   tsUses>>
    /\ StepFrame

\* return generator.toString()
Return ==
    /\ spc = "return"
    /\ chainedMap' = Generated(added, genContent)
    /\ spc' = "returned"
    /\ UNCHANGED <<tsJson, tsConsumer, obfConsumer, srcIdx, genContent, todo, added, tsUses>>
    /\ StepFrame

\* catch (error) { ...; return null }
Catch ==
    /\ spc = "caught"
    /\ chainedMap' = NullMap
    /\ spc' = "returned"
    /\ UNCHANGED <<tsJson, tsConsumer, obfConsumer, srcIdx, genContent, todo, added, tsUses>>
    /\ StepFrame

NextSteps ==
    \/ ReadTs \/ ReadObf \/ NewTs \/ NewObf \/ NewGenerator
    \/ ContentTurn \/ ContentEnd
    \/ EachDecode \/ EachMapping \/ OriginalDecode \/ OriginalAnswer \/ EachEnd
    \/ Destroy \/ Return \/ Catch

SpecSteps == InitSteps /\ [][NextSteps]_vars

\* The statements compute what chainSourceMaps is taken to return elsewhere.
StepsAgree ==
    spc = "returned" =>
        chainedMap = chainSourceMaps(tsDoc, obfDoc, srcFiles)

\* The consumer of A is constructed before the first mapping of B is passed
\* on (line 110 before line 143), and its stream is decoded before a lookup
\* answers and before a mapping is added to the generator.
ConstructedBeforeUse ==
    /\ \A i \in 1..Len(tsUses) : tsUses[i] \in {"constructed", "decoded"}
    /\ added # <<>> => tsConsumer = "decoded"
    /\ tsConsumer = "none" => (added = <<>> /\ tsUses = <<>> /\ todo = obfDoc.segs)

\* C11 as stated: A's stream has been decoded (its decode and index
\* construction have finished) when a query against A is issued, for every
\* query, and no mapping is added to the generator before that.
C11_DecodedBeforeQuery ==
    /\ \A i \in 1..Len(tsUses) : tsUses[i] = "decoded"
    /\ added # <<>> => tsConsumer = "decoded"

\* The sources of A whose file was read, and the others.
ReadableSources ==
    {s \in Range(tsDoc.sources) : FileOf(srcFiles, s).exists /\ FileOf(srcFiles, s).readable}
ContentPhaseOver ==
    \/ spc \in {"each", "destroy", "return"}
    \/ spc = "returned" /\ chainedMap.envelope = "ok"

\* When A has no sourcesContent, a source whose file is missing or fails to
\* read gets no content, every source whose file reads gets its content set
\* under the name A writes it with, and the call returns what it would
\* return anyway: null only for the reasons that make it null, else the
\* chained segments, with the contents that were set under the names the
\* chained segments give their sources.
ReadFailureSkipsOneSource ==
    ~tsJson.hasContent =>
        /\ ContentPhaseOver =>
               \A s \in Range(tsJson.sources) :
                   {c \in genContent : c.source = s} =
                       IF s \in ReadableSources
                       THEN ContentOf(s, FileOf(srcFiles, s).lines)
                       ELSE {}
        /\ spc = "returned" =>
               /\ chainedMap.envelope = "ok" <=> ~ChainThrows(tsDoc, obfDoc)
               /\ chainedMap.envelope = "ok" =>
                      /\ chainedMap.segs = ChainedSegments(tsDoc, obfDoc)
                      /\ \A s \in Range(tsJson.sources) :
                             {c \in chainedMap.content : c.source = s} =
                                 IF /\ s \in ReadableSources
                                    /\ \E a \in chainedMap.segs : a.source = s
                                 THEN ContentOf(s, FileOf(srcFiles, s).lines)
                                 ELSE {}

\* C12: when A has no sourcesContent, a source whose file is missing or
\* fails to read gets no content, and the call returns what it would return
\* anyway: null only for the reasons that make it null, else the chained
\* segments, and with them the content of every source of A whose file
\* reads and that the chained segments name, embedded for that source.
C12_ReadFailureSkipsOneSource ==
    (~tsJson.hasContent /\ spc = "returned") =>
        /\ chainedMap.envelope = "ok" <=> ~ChainThrows(tsDoc, obfDoc)
        /\ chainedMap.envelope = "ok" =>
               /\ chainedMap.segs = ChainedSegments(tsDoc, obfDoc)
               /\ \A s \in Range(tsJson.sources) :
                      {c \in chainedMap.content : c.source = NormalSource(s)} =
                          IF /\ s \in ReadableSources
                             /\ \E a \in chainedMap.segs : a.source = NormalSource(s)
                          THEN ContentOf(NormalSource(s), FileOf(srcFiles, s).lines)
                          ELSE {}

(***************************************************************************)
(* The mapping decoder and encoder: the encoded segment stream, a string   *)
(* of base-64 VLQ digits with "," between the segments of a line and ";"   *)
(* between lines, each field a signed delta.                               *)
(***************************************************************************)
MaxPieces == 2

Base64 ==
    << "A", "B", "C", "D", "E", "F", "G", "H", "I", "J", "K", "L", "M", "N", "O", "P",
       "Q", "R", "S", "T", "U", "V", "W", "X", "Y", "Z", "a", "b", "c", "d", "e", "f",
       "g", "h", "i", "j", "k", "l", "m", "n", "o", "p", "q", "r", "s", "t", "u", "v",
       "w", "x", "y", "z", "0", "1", "2", "3", "4", "5", "6", "7", "8", "9", "+", "/" >>

IsDigit(c) == \E i \in 1..Len(Base64) : Base64[i] = c
Digit(c) == (CHOOSE i \in 1..Len(Base64) : Base64[i] = c) - 1

\* The parts of a stream between the occurrences of a separator token.
RECURSIVE SplitOn(_, _)
SplitOn(chars, sep) ==
    IF \A i \in 1..Len(chars) : chars[i] # sep THEN <<chars>>
    ELSE LET i == CHOOSE k \in 1..Len(chars) :
                      chars[k] = sep /\ \A j \in 1..(k - 1) : chars[j] # sep
         IN  <<SubSeq(chars, 1, i - 1)>> \o SplitOn(SubSeq(chars, i + 1, Len(chars)), sep)

\* A digit carries five bits of payload and a continuation bit.
Continues(c) == Digit(c) >= 32

\* The digit groups of a segment, each ending at the first digit without
\* continuation bit; the last group is left open by an unterminated delta.
RECURSIVE VlqGroups(_)
VlqGroups(chars) ==
    IF chars = <<>> THEN <<>>
    ELSE IF \A i \in 1..Len(chars) : Continues(chars[i]) THEN <<chars>>
    ELSE LET i == CHOOSE k \in 1..Len(chars) :
                      ~Continues(chars[k]) /\ \A j \in 1..(k - 1) : Continues(chars[j])
         IN  <<SubSeq(chars, 1, i)>> \o VlqGroups(SubSeq(chars, i + 1, Len(chars)))

Terminated(group) == ~Continues(group[Len(group)])

RECURSIVE Payload(_)
Payload(group) ==
    IF group = <<>> THEN 0
    ELSE (Digit(group[1]) % 32) + 32 * Payload(Tail(group))

\* The signed delta of a digit group: the lowest payload bit is the sign.
FromVlq(group) ==
    IF Payload(group) % 2 = 1 THEN 0 - (Payload(group) \div 2) ELSE Payload(group) \div 2

RECURSIVE Groups(_)
Groups(payload) ==
    IF payload < 32 THEN <<Base64[payload + 1]>>
    ELSE <<Base64[32 + (payload % 32) + 1]>> \o Groups(payload \div 32)

ToVlq(delta) == Groups(IF delta < 0 THEN 2 * (0 - delta) + 1 ELSE 2 * delta)

Segment(gl, gc, si, ol, oc, ni) ==
    [generatedLine |-> gl, generatedColumn |-> gc, sourceIndex |-> si,
     originalLine |-> ol, originalColumn |-> oc, nameIndex |-> ni]

\* The fields the deltas are relative to.
Previous(col, src, ol, oc, name) ==
    [col |-> col, src |-> src, ol |-> ol, oc |-> oc, name |-> name]
Start == Previous(0, 0, 0, 0, 0)

MalformedMapping == [ok |-> FALSE, segments |-> <<>>, sources |-> <<>>, names |-> <<>>]
Table(segments, sources, names) ==
    [ok |-> TRUE, segments |-> segments, sources |-> sources, names |-> names]

\* The segment a list of deltas stands for, after prev, on a line.
SegmentOf(deltas, line, prev) ==
    Segment(line,
            prev.col + deltas[1],
            IF Len(deltas) >= 4 THEN prev.src + deltas[2] ELSE NullNum,
            IF Len(deltas) >= 4 THEN prev.ol + deltas[3] ELSE NullNum,
            IF Len(deltas) >= 4 THEN prev.oc + deltas[4] ELSE NullNum,
            IF Len(deltas) = 5 THEN prev.name + deltas[5] ELSE NullNum)

\* The fields later deltas are relative to, after a segment.
PreviousAfter(prev, seg) ==
    Previous(seg.generatedColumn,
             IF seg.sourceIndex # NullNum THEN seg.sourceIndex ELSE prev.src,
             IF seg.sourceIndex # NullNum THEN seg.originalLine ELSE prev.ol,
             IF seg.sourceIndex # NullNum THEN seg.originalColumn ELSE prev.oc,
             IF seg.nameIndex # NullNum THEN seg.nameIndex ELSE prev.name)

\* A segment string decodes when it is made of terminated digit groups, has
\* one, four or five fields, and its absolute fields are in range.
WellFormed(chars, line, prev, doc) ==
    /\ chars # <<>>
    /\ \A i \in 1..Len(chars) : IsDigit(chars[i])
    /\ LET groups == VlqGroups(chars)
           deltas == [i \in 1..Len(groups) |-> FromVlq(groups[i])]
           seg == SegmentOf(deltas, line, prev)
       IN  /\ \A i \in 1..Len(groups) : Terminated(groups[i])
           /\ Len(groups) \in {1, 4, 5}
           /\ seg.generatedColumn >= 0
           /\ Len(groups) >= 4 =>
                  /\ seg.sourceIndex \in 0..(Len(doc.sources) - 1)
                  /\ seg.originalLine >= 0
                  /\ seg.originalColumn >= 0
           /\ Len(groups) = 5 => seg.nameIndex \in 0..(Len(doc.names) - 1)

DecodedSegment(chars, line, prev) ==
    LET groups == VlqGroups(chars) IN
    SegmentOf([i \in 1..Len(groups) |-> FromVlq(groups[i])], line, prev)

\* The decoder at the start of a line: the column delta starts from 0 again.
DecoderLineStart(prev) == [prev EXCEPT !.col = 0]

\* The segments of the rest of a line, then of the lines after it, or the
\* failure of the first segment that is not well formed.
Failed == [ok |-> FALSE, segments |-> <<>>]
RECURSIVE DecodeFrom(_, _, _, _, _)
DecodeFrom(parts, lines, line, prev, doc) ==
    IF parts = <<>> \/ parts = << <<>> >>
    THEN IF lines = <<>> THEN [ok |-> TRUE, segments |-> <<>>]
         ELSE DecodeFrom(SplitOn(Head(lines), ","), Tail(lines), line + 1,
                         DecoderLineStart(prev), doc)
    ELSE IF ~WellFormed(Head(parts), line, prev, doc) THEN Failed
    ELSE LET seg == DecodedSegment(Head(parts), line, prev)
             rest == DecodeFrom(IF Len(parts) = 1 THEN <<>> ELSE Tail(parts), lines, line,
                                PreviousAfter(prev, seg), doc)
         IN  IF ~rest.ok THEN Failed
             ELSE [ok |-> TRUE, segments |-> <<seg>> \o rest.segments]

\* decode: the segment sequence and the tables of a mapping document.
Decode(doc) ==
    LET lines == SplitOn(doc.mappings, ";")
        rest == DecodeFrom(SplitOn(Head(lines), ","), Tail(lines), 0, Start, doc)
    IN  IF ~rest.ok THEN MalformedMapping
        ELSE Table(rest.segments, doc.sources, doc.names)

\* The fields of a segment as deltas from prev.
Deltas(seg, prev) ==
    <<seg.generatedColumn - prev.col>>
    \o (IF seg.sourceIndex = NullNum THEN <<>>
        ELSE <<seg.sourceIndex - prev.src, seg.originalLine - prev.ol,
               seg.originalColumn - prev.oc>>)
    \o (IF seg.nameIndex = NullNum THEN <<>> ELSE <<seg.nameIndex - prev.name>>)

RECURSIVE Digits(_)
Digits(deltas) ==
    IF deltas = <<>> THEN <<>> ELSE ToVlq(Head(deltas)) \o Digits(Tail(deltas))

\* The encoder at the start of a line.
EncoderLineStartKeepsColumn(prev) == prev
EncoderLineStart(prev) == [prev EXCEPT !.col = 0]

\* The stream of the segments from position (line, first segment of the
\* line or not) on.
RECURSIVE EncodeFrom(_, _, _, _)
EncodeFrom(segs, line, first, prev) ==
    IF segs = <<>> THEN <<>>
    ELSE IF Head(segs).generatedLine > line
    THEN <<";">> \o EncodeFrom(segs, line + 1, TRUE, EncoderLineStart(prev))
    ELSE (IF first THEN <<>> ELSE <<",">>)
         \o Digits(Deltas(Head(segs), prev))
         \o EncodeFrom(Tail(segs), line, FALSE, PreviousAfter(prev, Head(segs)))

\* encode: the mapping document of a segment sequence and its tables.
Encode(table) ==
    [sources |-> table.sources, names |-> table.names,
     mappings |-> EncodeFrom(table.segments, 0, TRUE, Start)]

\* Segment strings streams are put together from.
Pieces ==
    { <<>>,
      <<"A">>, <<"C">>,
      <<"A", "A", "A", "A">>,
      <<"C", "A", "C", "D">>,
      <<"S", "A", "A", "E", "A">>,
      <<"A", "A", "A", "A", "C">>,
      <<"A", "C", "A", "A">>,
      <<"B", "A", "A", "A">>,
      <<"g", "A", "A", "A", "A">>,
      <<"D", "A", "A", "A">>,
      <<"g">>,
      <<"A", "A">>,
      <<"!">> }

RECURSIVE Streams(_)
Streams(k) ==
    IF k = 1 THEN Pieces
    ELSE {s \o <<sep>> \o p : s \in Streams(k - 1), sep \in {",", ";"}, p \in Pieces}

MappingDocument(mappings) ==
    [sources |-> <<"user.ts", "index.ts">>, names |-> <<"userController">>,
     mappings |-> mappings]

InitCodec ==
    /\ \E k \in 1..MaxPieces : \E s \in Streams(k) : wire = MappingDocument(s)
    /\ decoded = <<>>
    /\ rewire = <<>>
    /\ redecoded = <<>>
    /\ kpc = "decode"
    /\ ComposeIdle
    /\ BatchIdle
    /\ TraceIdle
    /\ StepIdle

CodecFrame == UNCHANGED <<wire, composeVars, batchVars, traceVars, stepVars>>

DecodeWire ==
    /\ kpc = "decode"
    /\ decoded' = Decode(wire)
    /\ kpc' = IF Decode(wire).ok THEN "encode" ELSE "malformed"
    /\ UNCHANGED <<rewire, redecoded>>
    /\ CodecFrame

EncodeTable ==
    /\ kpc = "encode"
    /\ rewire' = Encode(decoded)
    /\ kpc' = "redecode"
    /\ UNCHANGED <<decoded, redecoded>>
    /\ CodecFrame

DecodeAgain ==
    /\ kpc = "redecode"
    /\ redecoded' = Decode(rewire)
    /\ kpc' = "done"
    /\ UNCHANGED <<decoded, rewire>>
    /\ CodecFrame

NextCodec == DecodeWire \/ EncodeTable \/ DecodeAgain

SpecCodec == InitCodec /\ [][NextCodec]_vars

\* C13: a document that decodes, encoded from its decoded table and decoded
\* again, gives the same segment sequence and the same sources and names
\* tables as the first decode.
C13_RoundTrip ==
    kpc = "done" =>
        /\ redecoded.ok
        /\ redecoded.segments = decoded.segments
        /\ redecoded.sources = decoded.sources
        /\ redecoded.names = decoded.names

\* A round trip of a two-line stream with a named segment on its second
\* line, whose encoding is not the stream that was decoded.
C13_Witness ==
    /\ kpc = "done"
    /\ Len(decoded.segments) = 2
    /\ decoded.segments[2].generatedLine = 1
    /\ decoded.segments[2].generatedColumn > 0
    /\ decoded.segments[2].nameIndex = 0
    /\ decoded.segments[1].generatedColumn > 0
    /\ redecoded.segments = decoded.segments

(***************************************************************************)
(* Text: a string is the sequence of its characters.                       *)
(***************************************************************************)
Least(S) == CHOOSE i \in S : \A j \in S : i <= j
Greatest(S) == CHOOSE i \in S : \A j \in S : j <= i

Blanks(n) == [i \in 1..n |-> " "]

\* Characters that cannot be written in a string here, each by its code
\* point: the vertical tab, the no-break space, the other Unicode spaces
\* (category Zs), the byte order mark, and the line and paragraph separators.
VT == "U+000B"
NBSP == "U+00A0"
BOM == "U+FEFF"
LS == "U+2028"
PS == "U+2029"
Spaces ==
    {NBSP, "U+1680", "U+2000", "U+2001", "U+2002", "U+2003", "U+2004", "U+2005", "U+2006",
     "U+2007", "U+2008", "U+2009", "U+200A", "U+202F", "U+205F", "U+3000"}
LineTerminators == {"\n", "\r", LS, PS}

\* The characters \s matches and trim() strips: white space and the line
\* terminators.
IsSpace(c) == c \in {" ", "\t", VT, "\f", BOM} \cup Spaces \cup LineTerminators

\* The characters . matches: all but the line terminators.
IsAny(c) == c \notin LineTerminators

Decimals == <<"0", "1", "2", "3", "4", "5", "6", "7", "8", "9">>
IsDecimal(c) == \E i \in 1..Len(Decimals) : Decimals[i] = c
DecimalValue(c) == (CHOOSE i \in 1..Len(Decimals) : Decimals[i] = c) - 1

\* parseInt(digits, 10) of a run of decimal digits
RECURSIVE ParseInt(_)
ParseInt(digits) ==
    IF digits = <<>> THEN 0
    ELSE 10 * ParseInt(SubSeq(digits, 1, Len(digits) - 1)) + DecimalValue(digits[Len(digits)])

\* String.prototype.trim
Trim(chars) ==
    LET inked == {i \in 1..Len(chars) : ~IsSpace(chars[i])} IN
    IF inked = {} THEN <<>> ELSE SubSeq(chars, Least(inked), Greatest(inked))

\* String.prototype.startsWith, endsWith
StartsWith(chars, word) ==
    Len(chars) >= Len(word) /\ SubSeq(chars, 1, Len(word)) = word
EndsWith(chars, word) ==
    Len(chars) >= Len(word) /\ SubSeq(chars, Len(chars) - Len(word) + 1, Len(chars)) = word

\* String.prototype.indexOf, counting characters from 1; 0 for JS -1.
IndexOf(chars, word) ==
    LET hits == {i \in 1..(Len(chars) - Len(word) + 1) :
                    SubSeq(chars, i, i + Len(word) - 1) = word}
    IN  IF hits = {} THEN 0 ELSE Least(hits)

\* String.prototype.replace with a string pattern: the first occurrence.
ReplaceFirst(chars, word, by) ==
    IF IndexOf(chars, word) = 0 THEN chars
    ELSE SubSeq(chars, 1, IndexOf(chars, word) - 1) \o by
         \o SubSeq(chars, IndexOf(chars, word) + Len(word), Len(chars))

(***************************************************************************)
(* translateStackTrace                                                     *)
(***************************************************************************)
\* The frame pattern /at\s+(?:(.+?)\s+\()?(.+?):(\d+):(\d+)\)?/, matched
\* as the regular expression engine does: leftmost start, \s+ and \d+ as
\* long as possible, (.+?) as short as possible, the optional name tried
\* before doing without it.
RECURSIVE SpaceRun(_, _)
SpaceRun(t, k) ==
    IF k > Len(t) THEN 0 ELSE IF IsSpace(t[k]) THEN 1 + SpaceRun(t, k + 1) ELSE 0

RECURSIVE DigitRun(_, _)
DigitRun(t, k) ==
    IF k > Len(t) THEN 0 ELSE IF IsDecimal(t[k]) THEN 1 + DigitRun(t, k + 1) ELSE 0

\* (.+?):(\d+):(\d+) from position k: where the path may end.
LocationEnds(t, k) ==
    {e \in k..Len(t) :
        /\ \A j \in k..e : IsAny(t[j])
        /\ e + 1 <= Len(t)
        /\ t[e + 1] = ":"
        /\ DigitRun(t, e + 2) >= 1
        /\ e + 2 + DigitRun(t, e + 2) <= Len(t)
        /\ t[e + 2 + DigitRun(t, e + 2)] = ":"
        /\ DigitRun(t, e + 3 + DigitRun(t, e + 2)) >= 1}

\* (.+?)\s+\( from position q with a location after it: where the name may end.
NameEnds(t, q) ==
    {g \in q..Len(t) :
        /\ \A j \in q..g : IsAny(t[j])
        /\ SpaceRun(t, g + 1) >= 1
        /\ g + 1 + SpaceRun(t, g + 1) <= Len(t)
        /\ t[g + 1 + SpaceRun(t, g + 1)] = "("
        /\ LocationEnds(t, g + 2 + SpaceRun(t, g + 1)) # {}}

RestMatches(t, q) == NameEnds(t, q) # {} \/ LocationEnds(t, q) # {}

\* The blanks \s+ may take after "at" at position s.
Gaps(t, s) == {w \in 1..SpaceRun(t, s + 2) : RestMatches(t, s + 2 + w)}

Starts(t) ==
    {s \in 1..(Len(t) - 2) : t[s] = "a" /\ t[s + 1] = "t" /\ Gaps(t, s) # {}}

NoMatch ==
    [matched |-> FALSE, named |-> FALSE, name |-> <<>>, path |-> <<>>,
     line |-> <<>>, column |-> <<>>]

\* The groups of a match whose path runs from k to e.
MatchGroups(t, named, name, k, e) ==
    [matched |-> TRUE,
     named |-> named,
     name |-> name,
     path |-> SubSeq(t, k, e),
     line |-> SubSeq(t, e + 2, e + 1 + DigitRun(t, e + 2)),
     column |-> SubSeq(t, e + 3 + DigitRun(t, e + 2),
                       e + 2 + DigitRun(t, e + 2) + DigitRun(t, e + 3 + DigitRun(t, e + 2)))]

\* The match whose location starts at k: the shortest path.
Captured(t, named, name, k) == MatchGroups(t, named, name, k, Least(LocationEnds(t, k)))

\* The match after "at" and its blanks, from q: with the shortest name
\* when there is one, and without name otherwise.
MatchRest(t, q) ==
    IF NameEnds(t, q) = {}
    THEN Captured(t, FALSE, <<>>, q)
    ELSE Captured(t, TRUE, SubSeq(t, q, Least(NameEnds(t, q))),
                  Least(NameEnds(t, q)) + 2 + SpaceRun(t, Least(NameEnds(t, q)) + 1))

\* The match starting at s: the longest run of blanks that lets the rest match.
MatchFrom(t, s) == MatchRest(t, s + 2 + Greatest(Gaps(t, s)))

\* trimmedLine.match(...): the four groups.
Match(t) == IF Starts(t) = {} THEN NoMatch ELSE MatchFrom(t, Least(Starts(t)))

anonymous == Str(<<"<", "a", "n", "o", "n", "y", "m", "o", "u", "s", ">">>)

\* The four fields taken from the match.
Fields(match) ==
    [matched |-> match.matched,
     functionName |-> IF match.named THEN Str(Trim(match.name)) ELSE anonymous,
     filePath |-> Trim(match.path),
     lineNum |-> IF match.matched THEN ParseInt(match.line) ELSE NullNum,
     column |-> IF match.matched THEN ParseInt(match.column) ELSE NullNum]

ParseFrame(trimmedLine) == Fields(Match(trimmedLine))

\* if (match) and if (filePath && lineNum !== null && column !== null)
Located(frame) == frame.matched /\ frame.filePath # <<>>

(***************************************************************************)
(* Node's path module, on the platform the translator runs on.             *)
(***************************************************************************)
Platforms == {"posix", "win32"}

IsSep(platform_, c) == c = "/" \/ (platform_ = "win32" /\ c = "\\")

Letters == {Base64[i] : i \in 1..52}
HasDrive(p) == Len(p) >= 2 /\ p[1] \in Letters /\ p[2] = ":"

\* path.isAbsolute
IsAbsolute(platform_, p) ==
    /\ p # <<>>
    /\ \/ IsSep(platform_, p[1])
       \/ platform_ = "win32" /\ Len(p) >= 3 /\ HasDrive(p) /\ IsSep(platform_, p[3])

\* The names between the separators of a path.
RECURSIVE Components(_, _)
Components(platform_, p) ==
    LET seps == {i \in 1..Len(p) : IsSep(platform_, p[i])} IN
    IF seps = {} THEN (IF p = <<>> THEN <<>> ELSE <<p>>)
    ELSE (IF Least(seps) = 1 THEN <<>> ELSE <<SubSeq(p, 1, Least(seps) - 1)>>)
         \o Components(platform_, SubSeq(p, Least(seps) + 1, Len(p)))

WithoutDrive(platform_, p) ==
    IF platform_ = "win32" /\ HasDrive(p) THEN SubSeq(p, 3, Len(p)) ELSE p

\* path.basename
Basename(platform_, p) ==
    LET names == Components(platform_, WithoutDrive(platform_, p)) IN
    IF names = <<>> THEN <<>> ELSE names[Len(names)]

\* The characters from position k on that are separators (sep), or that
\* are not, up to the first of the other kind.
RECURSIVE PathRun(_, _, _, _)
PathRun(platform_, p, k, sep) ==
    IF k > Len(p) THEN 0
    ELSE IF IsSep(platform_, p[k]) # sep THEN 0
    ELSE 1 + PathRun(platform_, p, k + 1, sep)

\* win32: where the UNC root at the start of p ends (two separators, a
\* name, separators, a name), 0 when p does not start with one.
UncRootEnd(p) ==
    LET n1 == PathRun("win32", p, 3, FALSE)
        s1 == PathRun("win32", p, 3 + n1, TRUE)
        n2 == PathRun("win32", p, 3 + n1 + s1, FALSE)
    IN  IF /\ Len(p) >= 2
           /\ IsSep("win32", p[1]) /\ IsSep("win32", p[2])
           /\ n1 >= 1 /\ s1 >= 1 /\ n2 >= 1
        THEN 2 + n1 + s1 + n2
        ELSE 0

\* A win32 path that is a UNC root and nothing more.
UncRootOnly(p) == UncRootEnd(p) > 0 /\ UncRootEnd(p) = Len(p)

\* The length of the root path.dirname sets apart: "/" on posix; on win32
\* a UNC root with the separator after it, a separator, or a drive with
\* the separator after it; 0 for a path without root.
RootEnd(platform_, p) ==
    IF p = <<>> THEN 0
    ELSE IF platform_ = "posix" THEN (IF p[1] = "/" THEN 1 ELSE 0)
    ELSE IF IsSep(platform_, p[1]) THEN (IF UncRootEnd(p) > 0 THEN UncRootEnd(p) + 1 ELSE 1)
    ELSE IF HasDrive(p) THEN (IF Len(p) > 2 /\ IsSep(platform_, p[3]) THEN 3 ELSE 2)
    ELSE 0

\* Where the separator before the last name of p is, looked for after the
\* offset (the root on win32, the first character on posix) and below the
\* separators p ends with; 0 when there is none.
LastSep(platform_, p) ==
    LET offset == IF platform_ = "posix" THEN 1 ELSE RootEnd(platform_, p)
        names == {i \in (offset + 1)..Len(p) : ~IsSep(platform_, p[i])}
        seps == {i \in (offset + 1)..Len(p) :
                    IsSep(platform_, p[i]) /\ \E n \in names : i < n}
    IN  IF seps = {} THEN 0 ELSE Greatest(seps)

\* path.dirname: a UNC root is its own dirname; on posix "//" when the
\* separator before the last name is the second character of a rooted path;
\* without a separator before the last name, the root, or "." when there is
\* no root.
Dirname(platform_, p) ==
    IF platform_ = "win32" /\ UncRootOnly(p) THEN p
    ELSE IF platform_ = "posix" /\ LastSep(platform_, p) = 2 /\ p[1] = "/" THEN <<"/", "/">>
    ELSE IF LastSep(platform_, p) # 0 THEN SubSeq(p, 1, LastSep(platform_, p) - 1)
    ELSE IF RootEnd(platform_, p) # 0 THEN SubSeq(p, 1, RootEnd(platform_, p))
    ELSE <<".">>

\* What path.join makes of names: "." dropped, ".." taking back a name.
RECURSIVE Normalize(_, _)
Normalize(done, rest) ==
    IF rest = <<>> THEN done
    ELSE IF Head(rest) = <<".">> THEN Normalize(done, Tail(rest))
    ELSE IF /\ Head(rest) = <<".", ".">>
            /\ done # <<>>
            /\ done[Len(done)] # <<".", ".">>
    THEN Normalize(SubSeq(done, 1, Len(done) - 1), Tail(rest))
    ELSE Normalize(Append(done, Head(rest)), Tail(rest))

\* distDir, './sourcemaps'
distDir == << <<".">>, <<"s", "o", "u", "r", "c", "e", "m", "a", "p", "s">> >>
dotMap == <<".", "m", "a", "p">>
dotTs == <<".", "t", "s">>
dotJs == <<".", "j", "s">>
distMarker == <<"d", "i", "s", "t">>

\* path.join(distDir, dirPath, `${jsFileName}.map`), as the names of the path
MapPath(dirs, jsFileName) == Normalize(<<>>, distDir \o dirs \o <<jsFileName \o dotMap>>)

\* filePath.substring(distIndex + 5)
RelativeFromDist(filePath) ==
    SubSeq(filePath, IndexOf(filePath, distMarker) + 5, Len(filePath))

\* The map of a file below the dist directory, in the same directory below distDir.
BelowDist(platform_, relativeFromDist) ==
    MapPath(Components(platform_, Dirname(platform_, relativeFromDist)),
            Basename(platform_, relativeFromDist))

\* The map of a file given by a relative path: of the .js file when it is a .ts file.
Beside(jsFileName) ==
    IF EndsWith(jsFileName, dotTs)
    THEN MapPath(<<>>, ReplaceFirst(jsFileName, dotTs, dotJs))
    ELSE MapPath(<<>>, jsFileName)

\* The map file a frame's file is looked up in.
SourceMapPath(platform_, filePath) ==
    IF IsAbsolute(platform_, filePath)
    THEN IF IndexOf(filePath, distMarker) # 0
         THEN BelowDist(platform_, RelativeFromDist(filePath))
         ELSE MapPath(<<>>, Basename(platform_, filePath))
    ELSE Beside(Basename(platform_, filePath))

\* fs.existsSync(sourceMapPath) and the file read there.
FileAt(maps, mapPath) == IF mapPath \in DOMAIN maps THEN maps[mapPath] ELSE Missing

\* The two lookups: at the frame's column, then at column 0 when the first
\* found no source and the column is not 0 already.
NeedsFallback(first, column) == first.source = NullSource /\ column > 0

QueriedColumns(doc, lineNum, column) ==
    IF NeedsFallback(OriginalPositionFor(doc, lineNum, column), column)
    THEN <<column, 0>>
    ELSE <<column>>

ResolveNoFallback(doc, lineNum, column) ==
    OriginalPositionFor(doc, lineNum, column)
ResolveNearestLine(doc, lineNum, column) ==
    IF OriginalPositionFor(doc, lineNum, column).source # NullSource
    THEN OriginalPositionFor(doc, lineNum, column)
    ELSE IF OriginalPositionFor(doc, lineNum, 0).source # NullSource
    THEN OriginalPositionFor(doc, lineNum, 0)
    ELSE IF {s \in Preceding(doc.segs, lineNum, column) : s.source # NullSource} = {}
    THEN NullPosition
    ELSE PositionOf(First(doc, Last({s \in Preceding(doc.segs, lineNum, column) :
                                       s.source # NullSource})))
Resolve(doc, lineNum, column) ==
    IF NeedsFallback(OriginalPositionFor(doc, lineNum, column), column)
    THEN OriginalPositionFor(doc, lineNum, 0)
    ELSE OriginalPositionFor(doc, lineNum, column)

\* What throws inside the try block: constructing the consumer from a file
\* that does not parse or is no source map, and originalPositionFor.
ReadThrows(doc, lineNum, column) ==
    \/ doc.envelope # "ok"
    \/ OriginalPositionFor(doc, lineNum, column).thrown
    \/ Resolve(doc, lineNum, column).thrown

\* name.startsWith('_0x')
StartsWith0x(name) ==
    Len(name.chars) >= 3 /\ SubSeq(name.chars, 1, 3) = <<"_", "0", "x">>

DisplayNameAlwaysOriginal(originalName, functionName) ==
    IF Truthy(originalName) THEN originalName ELSE functionName
DisplayName(originalName, functionName) ==
    IF Truthy(originalName) /\ ~StartsWith0x(originalName)
    THEN originalName
    ELSE functionName

\* The source line of the original position, trimmed, or null: null when
\* the content has no such line or the line is empty.
NullCode == [isNull |-> TRUE, text |-> <<>>]
SourceLines(doc, originalPosition) ==
    LET listed == {i \in 1..Len(doc.sources) :
                      NormalSource(doc.sources[i]) = originalPosition.source}
    IN  IF listed = {} THEN {}
        ELSE {c \in EntryAt(doc, Least(listed)) :
                 c.n = originalPosition.line /\ c.text # <<>>}
SourceCodeLine(doc, originalPosition) ==
    IF SourceLines(doc, originalPosition) = {} THEN NullCode
    ELSE [isNull |-> FALSE,
          text |-> Trim((CHOOSE c \in SourceLines(doc, originalPosition) : TRUE).text)]

NullTranslated ==
    [isNull |-> TRUE, file |-> NullSource, line |-> NullNum, column |-> NullNum,
     name |-> NullName, sourceCode |-> NullCode]
NullObfuscated == [isNull |-> TRUE, file |-> <<>>, line |-> NullNum, column |-> NullNum]
Undefined == "<undefined>"
NoPositionFound == "No original position found in source map"
ErrorReading == "Error reading source map: "
NotFound == "Source map not found: "

Result(line, translated, obfuscated, error) ==
    [original |-> line, translated |-> translated, obfuscated |-> obfuscated, error |-> error]

\* results.push in the catch block
CaughtSilently(line) == Result(line, NullTranslated, NullObfuscated, Undefined)
Caught(line) == Result(line, NullTranslated, NullObfuscated, ErrorReading)

\* results.push of a translated frame
TranslatedWithError(line, frame, doc, originalPosition) ==
    Result(line,
           [isNull |-> FALSE,
            file |-> originalPosition.source,
            line |-> originalPosition.line,
            column |-> originalPosition.column,
            name |-> DisplayName(originalPosition.name, frame.functionName),
            sourceCode |-> SourceCodeLine(doc, originalPosition)],
           [isNull |-> FALSE, file |-> frame.filePath,
            line |-> frame.lineNum, column |-> frame.column],
           NoPositionFound)
Translated(line, frame, doc, originalPosition) ==
    Result(line,
           [isNull |-> FALSE,
            file |-> originalPosition.source,
            line |-> originalPosition.line,
            column |-> originalPosition.column,
            name |-> DisplayName(originalPosition.name, frame.functionName),
            sourceCode |-> SourceCodeLine(doc, originalPosition)],
           [isNull |-> FALSE, file |-> frame.filePath,
            line |-> frame.lineNum, column |-> frame.column],
           Undefined)

\* The result pushed for a frame whose map was read and decoded.
Resolved(line, frame, doc, originalPosition) ==
    IF originalPosition.source # NullSource
    THEN Translated(line, frame, doc, originalPosition)
    ELSE Result(line, NullTranslated, NullObfuscated, NoPositionFound)

\* The result pushed for a frame, given the file at its sourceMapPath.
Read(line, frame, doc) ==
    IF ~doc.exists
    THEN Result(line, NullTranslated, NullObfuscated, NotFound)
    ELSE IF ReadThrows(doc, frame.lineNum, frame.column)
    THEN Caught(line)
    ELSE Resolved(line, frame, doc, Resolve(doc, frame.lineNum, frame.column))

\* sourceMapPath of a frame, <<>> for a line that is no frame.
FrameMapPath(platform_, frame) ==
    IF Located(frame) THEN SourceMapPath(platform_, frame.filePath) ELSE <<>>

\* The result pushed for a line, given what the pattern made of it and the
\* sourceMapPath derived from that.
LineResult(line, maps, frame, sourceMapPath) ==
    IF ~Located(frame)
    THEN Result(line, NullTranslated, NullObfuscated, Undefined)
    ELSE Read(line, frame, FileAt(maps, sourceMapPath))

\* The calls of originalPositionFor made for a frame, given its map file.
Queries(frame, doc) ==
    IF ~doc.exists \/ doc.envelope # "ok" THEN <<>>
    ELSE IF OriginalPositionFor(doc, frame.lineNum, frame.column).thrown THEN <<frame.column>>
    ELSE QueriedColumns(doc, frame.lineNum, frame.column)

\* The calls of originalPositionFor made for one line.
LineQueries(maps, frame, sourceMapPath) ==
    IF ~Located(frame) THEN <<>> ELSE Queries(frame, FileAt(maps, sourceMapPath))

\* results after the loop body ran on one line
PushedUnlessText(array, line, maps, frame, sourceMapPath) ==
    IF frame.matched
    THEN Append(array, LineResult(line, maps, frame, sourceMapPath))
    ELSE array
Pushed(array, line, maps, frame, sourceMapPath) ==
    Append(array, LineResult(line, maps, frame, sourceMapPath))

\* main's summary: results.filter(r => r.translated && r.translated.file)
\* and results.filter(r => r.original.trim().startsWith('at ')).
SuccessCount(array) ==
    Cardinality({i \in 1..Len(array) :
                    ~array[i].translated.isNull /\ array[i].translated.file # NullSource})
TotalFrames(array) ==
    Cardinality({i \in 1..Len(array) :
                    StartsWith(Trim(array[i].original), <<"a", "t", " ">>)})

(***************************************************************************)
(* Inputs of the translator.                                               *)
(***************************************************************************)
at == <<"a", "t">>
ErrorTestError ==
    <<"E", "r", "r", "o", "r", ":", " ", "T", "e", "s", "t", " ", "e", "r", "r", "o", "r">>
ErrorFormat ==
    <<"E", "r", "r", "o", "r", ":", " ", "f", "o", "r", "m", "a", "t">>
userJs == <<"u", "s", "e", "r", ".", "j", "s">>
userTs == <<"u", "s", "e", "r", ".", "t", "s">>
distUserJs == <<"d", ":", "\\", "d", "i", "s", "t", "\\">> \o userJs
libIndexJs ==
    <<"/", "a", "p", "p", "/", "d", "i", "s", "t", "/", "l", "i", "b", "/",
      "i", "n", "d", "e", "x", ".", "j", "s">>
distroUserJs ==
    <<"/", "a", "p", "p", "/", "d", "i", "s", "t", "r", "o", "/">> \o userJs
distDriveUserJs == <<"d", ":", "\\", "d", "i", "s", "t", "\\", "c", ":">> \o userJs

\* "at file:line:column"
Location(file, line, column) == file \o <<":">> \o line \o <<":">> \o column
\* A line of free text after lead blanks.
TextLine(lead, text) == Blanks(lead) \o text
\* A frame "at fn (file:line:column)", or "at file:line:column" without fn.
FrameLine(lead, fn, file, line, column) ==
    Blanks(lead) \o at \o <<" ">>
    \o (IF fn.isNull THEN Location(file, line, column)
        ELSE fn.chars \o <<" ", "(">> \o Location(file, line, column) \o <<")">>)

SampleLines ==
    { <<>>,
      TextLine(2, ErrorTestError),
      FrameLine(4, obfName, distUserJs, <<"9", "8">>, <<"1", "9">>),
      FrameLine(4, NullName, distUserJs, <<"9", "8">>, <<"3", "7">>),
      FrameLine(4, obfName, distUserJs, <<"9", "8">>, <<"0">>),
      FrameLine(4, NullName, userTs, <<"0">>, <<"1", "9">>),
      FrameLine(4, obfName, libIndexJs, <<"9", "8">>, <<"1", "9">>) \o <<"\r">>,
      FrameLine(4, next_, distroUserJs, <<"9", "8">>, <<"1", "9">>),
      FrameLine(0, NullName, distDriveUserJs, <<"9", "8">>, <<"1", "9">>),
      TextLine(0, at \o <<"\r">> \o Location(userJs, <<"9", "8">>, <<"1", "9">>)),
      <<NBSP, BOM>>,
      <<VT>> \o at \o <<NBSP>> \o Location(userJs \o <<LS>> \o userJs, <<"9", "8">>, <<"1", "9">>)
          \o <<PS>>,
      at \o <<BOM>> \o next_.chars \o <<LS, "(">> \o Location(userJs, <<"9", "8">>, <<"1", "9">>)
          \o <<")">>,
      TextLine(0, at \o <<" ", "x", "\r">> \o Location(userJs, <<"9", "8">>, <<"1", "9">>)),
      TextLine(0, ErrorFormat \o <<" ">> \o Location(userJs, <<"9", "8">>, <<"1", "9">>)),
      TextLine(2, at \o <<" ", " ">> \o Location(<<>>, <<"1">>, <<"2">>)) }

userJsMap == MapPath(<<>>, userJs)
libIndexJsMap == MapPath(<< <<"l", "i", "b">> >>, <<"i", "n", "d", "e", "x">> \o dotJs)
MapPaths == {userJsMap, libIndexJsMap}

userTsContent ==
    { [source |-> "user.ts", nth |-> 1, n |-> 2,
       text |-> <<"\t", " ">> \o throwError \o <<" ", "\r">>],
      [source |-> "user.ts", nth |-> 1, n |-> 15, text |-> <<>>] }

UserJsTie ==
    { Seg(98, 19, "user.ts", 2, 3, userController), Seg(98, 19, "index.ts", 7, 0, EmptyName) }

UserJsMaps ==
    { Missing, BadEnvelope, InvalidEnvelope, BadMappings,
      Doc(UserJsTie), TablesReversed(Doc(UserJsTie)), Relisted(Doc(UserJsTie)),
      Doc({GenOnly(98, 19), Seg(98, 19, "user.ts", 2, 3, userController)}),
      DocWith({Seg(98, 19, "user.ts", 2, 3, userController)}, userTsContent),
      DocWith({Seg(98, 19, "./user.ts", 2, 3, userController)},
              {[c EXCEPT !.source = "./user.ts"] : c \in userTsContent}),
      DocWith({Seg(98, 0, "user.ts", 15, 4, obfName2), GenOnly(98, 19)}, userTsContent),
      Doc({Seg(98, 0, "user.ts", 2, 3, EmptyName)}),
      Doc({GenOnly(98, 0), Seg(98, 19, "user.ts", 2, 3, next_)}),
      Doc({Seg(97, 0, "user.ts", 1, 0, next_), Seg(100, 0, "user.ts", 3, 0, next_)}) }

LibIndexJsMaps ==
    { Doc({Seg(98, 0, "index.ts", 7, 1, NullName)}) }

InitTrace ==
    /\ \E n \in 1..MaxLines : stackTrace \in [1..n -> SampleLines]
    /\ platform \in Platforms
    /\ \E u \in UserJsMaps, l \in LibIndexJsMaps :
           sourcemaps = [p \in MapPaths |-> IF p = userJsMap THEN u ELSE l]
    /\ results = <<>>
    /\ queried = <<>>
    /\ mapPaths = <<>>
    /\ successCount = 0
    /\ totalFrames = 0
    /\ lineIdx = 1
    /\ tpc = "loop"
    /\ ComposeIdle
    /\ BatchIdle
    /\ StepIdle
    /\ CodecIdle

\* Whether the turn for a frame comes to the await of line 79: its map file
\* is there, is read and parses; a read or a parse that throws goes to the
\* catch block without awaiting.
Awaits(frame, doc) == Located(frame) /\ doc.exists /\ doc.envelope # "bad"

\* The rest of a turn of the loop: the result is pushed.
TurnEnd(frame, sourceMapPath) ==
    /\ results' = Pushed(results, stackTrace[lineIdx], sourcemaps, frame, sourceMapPath)
    /\ queried' = Append(queried, LineQueries(sourcemaps, frame, sourceMapPath))
    /\ mapPaths' = Append(mapPaths, sourceMapPath)
    /\ lineIdx' = lineIdx + 1
    /\ tpc' = "loop"

\* One turn of the loop over the lines, up to the await of line 79 when
\* the turn comes to it, and else to its end.
TranslateLine ==
    /\ tpc = "loop"
    /\ lineIdx <= Len(stackTrace)
    /\ \E frame \in {ParseFrame(Trim(stackTrace[lineIdx]))} :
       \E sourceMapPath \in {FrameMapPath(platform, frame)} :
           IF Awaits(frame, FileAt(sourcemaps, sourceMapPath))
           THEN tpc' = "await" /\ UNCHANGED <<results, queried, mapPaths, lineIdx>>
           ELSE TurnEnd(frame, sourceMapPath)
    /\ UNCHANGED <<stackTrace, platform, sourcemaps, successCount, totalFrames>>
    /\ UNCHANGED <<composeVars, batchVars, stepVars, codecVars>>

\* The turn from the await of line 79 on: the consumer is there, or its
\* construction threw; the lookups, and the result pushed.
TranslateResume ==
    /\ tpc = "await"
    /\ \E frame \in {ParseFrame(Trim(stackTrace[lineIdx]))} :
       \E sourceMapPath \in {FrameMapPath(platform, frame)} :
           TurnEnd(frame, sourceMapPath)
    /\ UNCHANGED <<stackTrace, platform, sourcemaps, successCount, totalFrames>>
    /\ UNCHANGED <<composeVars, batchVars, stepVars, codecVars>>

TranslateReturn ==
    /\ tpc = "loop"
    /\ lineIdx > Len(stackTrace)
    /\ tpc' = "returned"
    /\ UNCHANGED <<stackTrace, platform, sourcemaps, results, queried, mapPaths, lineIdx>>
    /\ UNCHANGED <<successCount, totalFrames>>
    /\ UNCHANGED <<composeVars, batchVars, stepVars, codecVars>>

\* main after translateStackTrace returned; main exits before the call when
\* the input is blank.
MainSummary ==
    /\ tpc = "returned"
    /\ \E i \in 1..Len(stackTrace) : Trim(stackTrace[i]) # <<>>
    /\ successCount' = SuccessCount(results)
    /\ totalFrames' = TotalFrames(results)
    /\ tpc' = "summarised"
    /\ UNCHANGED <<stackTrace, platform, sourcemaps, results, queried, mapPaths, lineIdx>>
    /\ UNCHANGED <<composeVars, batchVars, stepVars, codecVars>>

NextTrace == TranslateLine \/ TranslateResume \/ TranslateReturn \/ MainSummary

SpecTrace == InitTrace /\ [][NextTrace]_vars

\* The lines the loop has been through, and what each was looked up in.
Processed == 1..(lineIdx - 1)
Frames == [l \in SampleLines |-> ParseFrame(Trim(l))]
FrameOf(i) == Frames[stackTrace[i]]
PathsOf ==
    [p \in Platforms |-> [l \in SampleLines |-> SourceMapPath(p, Frames[l].filePath)]]
DocOf(i) == FileAt(sourcemaps, PathsOf[platform][stackTrace[i]])
\* Line i is a frame whose map was read and decoded.
Looked(i) ==
    /\ Located(FrameOf(i))
    /\ DocOf(i).exists
    /\ ~ReadThrows(DocOf(i), FrameOf(i).lineNum, FrameOf(i).column)
ExactLookup(i) == OriginalPositionFor(DocOf(i), FrameOf(i).lineNum, FrameOf(i).column)
ColumnZeroLookup(i) == OriginalPositionFor(DocOf(i), FrameOf(i).lineNum, 0)

\* C4: a frame whose lookup at its column finds no source is looked up once
\* more, at column 0 of the same line; it is reported as "No original
\* position found" exactly when the lookup at its column and the lookup at
\* column 0 both find no source, and is otherwise translated to the first
\* of the two that found one.  No frame is looked up at column 0 twice.
C4_ColumnZeroFallback ==
    \A i \in Processed :
        Looked(i) =>
            /\ results[i].error = NoPositionFound <=>
                   (ExactLookup(i).source = NullSource /\ ColumnZeroLookup(i).source = NullSource)
            /\ results[i].error = NoPositionFound =>
                   /\ results[i].translated.isNull
                   /\ Cardinality({j \in 1..Len(queried[i]) : queried[i][j] = 0}) = 1
            /\ (ExactLookup(i).source = NullSource /\ ColumnZeroLookup(i).source # NullSource) =>
                   /\ results[i].translated.file = ColumnZeroLookup(i).source
                   /\ results[i].translated.line = ColumnZeroLookup(i).line
                   /\ results[i].translated.column = ColumnZeroLookup(i).column
            /\ ExactLookup(i).source # NullSource =>
                   /\ results[i].translated.file = ExactLookup(i).source
                   /\ results[i].translated.line = ExactLookup(i).line
                   /\ results[i].translated.column = ExactLookup(i).column
                   /\ queried[i] = <<FrameOf(i).column>>
            /\ Len(queried[i]) <= 2
            /\ queried[i][1] = FrameOf(i).column
            /\ Len(queried[i]) = 2 => queried[i][2] = 0 /\ FrameOf(i).column > 0

\* A frame at column 37 whose lookup there found no source and which was
\* translated by the lookup at column 0.
C4_Witness ==
    \E i \in Processed :
        /\ Looked(i)
        /\ FrameOf(i).column = 37
        /\ ExactLookup(i).source = NullSource
        /\ queried[i] = <<37, 0>>
        /\ ~results[i].translated.isNull
        /\ results[i].translated.line = 15

\* C5: a frame on a line of which the map has no segment is a miss
\* (translated null, with a failure reason), and a translated frame carries
\* the original position of a segment of its own generated line.
C5_NoOtherLine ==
    \A i \in Processed :
        (Located(FrameOf(i)) /\ DocOf(i).exists) =>
            /\ (~\E s \in DocOf(i).segs : s.gl = FrameOf(i).lineNum) =>
                   /\ results[i].translated.isNull
                   /\ results[i].error \in {NoPositionFound, ErrorReading}
            /\ ~results[i].translated.isNull =>
                   \E s \in DocOf(i).segs :
                       /\ s.gl = FrameOf(i).lineNum
                       /\ NormalSource(s.source) = results[i].translated.file
                       /\ s.ol = results[i].translated.line
                       /\ s.oc = results[i].translated.column

\* A frame at line 98, column 37, looked up at both columns in a map that has
\* segments on lines 97 and 100 only, and reported as a miss.
C5_Witness ==
    \E i \in Processed :
        /\ Looked(i)
        /\ FrameOf(i).lineNum = 98
        /\ \E s \in DocOf(i).segs : s.gl = 97 /\ s.source # NullSource
        /\ ~\E s \in DocOf(i).segs : s.gl = 98
        /\ queried[i] = <<37, 0>>
        /\ results[i].error = NoPositionFound

\* C6: one result per line, in the order of the input, each carrying its
\* line verbatim; a line that is no frame has translated null and no error.
C6_OneResultPerLine ==
    /\ Len(results) = lineIdx - 1
    /\ tpc = "returned" => Len(results) = Len(stackTrace)
    /\ \A i \in 1..Len(results) :
           /\ results[i].original = stackTrace[i]
           /\ ~Located(FrameOf(i)) =>
                  results[i].translated.isNull /\ results[i].error = Undefined

\* The function returned for an indented text line followed by a frame that
\* was translated.
C6_Witness ==
    /\ tpc = "returned"
    /\ Len(stackTrace) = 2
    /\ stackTrace[1] = TextLine(2, ErrorTestError)
    /\ stackTrace[2] = FrameLine(4, obfName, distUserJs, <<"9", "8">>, <<"1", "9">>)
    /\ results[1].original = stackTrace[1]
    /\ ~results[2].translated.isNull

\* The ways a frame fails.
FrameFails(i) ==
    /\ Located(FrameOf(i))
    /\ \/ ~DocOf(i).exists
       \/ ReadThrows(DocOf(i), FrameOf(i).lineNum, FrameOf(i).column)
       \/ (ExactLookup(i).source = NullSource /\ ColumnZeroLookup(i).source = NullSource)

\* C7: a frame whose map is missing, whose map cannot be read or decoded, or
\* whose position is not resolved, gets a result with translated null and an
\* error reason; the loop goes on to the next line after it, and returns
\* with a result for every line.
C7_FailuresStayPerFrame ==
    /\ \A i \in Processed :
           FrameFails(i) =>
               /\ i <= Len(results)
               /\ results[i].translated.isNull
               /\ results[i].error \in {NotFound, ErrorReading, NoPositionFound}
               /\ ~DocOf(i).exists => results[i].error = NotFound
    /\ Len(results) = lineIdx - 1
    /\ tpc = "returned" => Len(results) = Len(stackTrace)

\* The function returned after a first frame whose map does not decode and a
\* second frame that was translated.
C7_Witness ==
    /\ tpc = "returned"
    /\ Len(stackTrace) = 2
    /\ FrameFails(1)
    /\ results[1].error = ErrorReading
    /\ ~results[2].translated.isNull

\* C8: the name of a translated frame is the resolved original name when
\* there is one that does not start with _0x, and otherwise the function name
\* of the frame, <anonymous> when the frame has none.
C8_DisplayName ==
    \A i \in Processed :
        (Looked(i) /\ ~results[i].translated.isNull) =>
            LET resolved == IF ExactLookup(i).source # NullSource
                            THEN ExactLookup(i).name
                            ELSE ColumnZeroLookup(i).name
                synthetic == /\ Len(resolved.chars) >= 3
                             /\ resolved.chars[1] = "_"
                             /\ resolved.chars[2] = "0"
                             /\ resolved.chars[3] = "x"
                raw == FrameOf(i).functionName
            IN  IF ~resolved.isNull /\ resolved.chars # <<>> /\ ~synthetic
                THEN results[i].translated.name = resolved
                ELSE results[i].translated.name = raw

\* A translated frame without function name whose resolved name starts with
\* _0x, named <anonymous>.
C8_Witness ==
    \E i \in Processed :
        /\ Looked(i)
        /\ ~results[i].translated.isNull
        /\ stackTrace[i] = FrameLine(4, NullName, distUserJs, <<"9", "8">>, <<"3", "7">>)
        /\ ColumnZeroLookup(i).name = obfName2
        /\ results[i].translated.name = anonymous

\* Line i was taken for a frame: its result is not the bare passthrough
\* (translated null, no error).
TakenForFrame(i) == ~(results[i].translated.isNull /\ results[i].error = Undefined)

\* "path:line:col" from position k to the end of the line, followed by ")"
\* when closed.
ShapedLocation(t, k, closed) ==
    \E e \in LocationEnds(t, k) :
        e + 2 + DigitRun(t, e + 2) + DigitRun(t, e + 3 + DigitRun(t, e + 2))
            = IF closed THEN Len(t) - 1 ELSE Len(t)

\* The two shapes of a frame line: "at path:line:col" and
\* "at fn (path:line:col)".
HasShape(t) ==
    /\ StartsWith(t, at)
    /\ SpaceRun(t, 3) >= 1
    /\ \/ ShapedLocation(t, 3 + SpaceRun(t, 3), FALSE)
       \/ /\ t[Len(t)] = ")"
          /\ \E g \in (3 + SpaceRun(t, 3))..Len(t) :
                 /\ SpaceRun(t, g + 1) >= 1
                 /\ g + 1 + SpaceRun(t, g + 1) <= Len(t)
                 /\ t[g + 1 + SpaceRun(t, g + 1)] = "("
                 /\ ShapedLocation(t, g + 2 + SpaceRun(t, g + 1), TRUE)

\* C16 as stated: a line is taken for a frame exactly when, trimmed, it has
\* one of the shapes "at fn (path:line:col)" and "at path:line:col"; any
\* other line is passed through as no frame.
C16_FrameExactlyWhenShaped ==
    \A i \in Processed :
        TakenForFrame(i) <=> HasShape(Trim(stackTrace[i]))

\* The map path the convention gives: below distDir, the path below the
\* directory dist of an absolute path, else the base name, with ".map".
ClaimedMapPath(platform_, filePath) ==
    LET names == Components(platform_, filePath)
        marks == {i \in 1..(Len(names) - 1) : names[i] = distMarker}
    IN  IF IsAbsolute(platform_, filePath) /\ marks # {}
        THEN Normalize(<<>>, distDir \o SubSeq(names, Least(marks) + 1, Len(names) - 1)
                                    \o <<names[Len(names)] \o dotMap>>)
        ELSE MapPath(<<>>, Basename(platform_, filePath))

\* C17 as stated: the map of a frame is looked for, below the map
\* directory, at the path below the marker dist of an absolute file path,
\* and at the base name of any other file path, with the suffix ".map".
C17_MapPathByConvention ==
    \A i \in Processed :
        Located(FrameOf(i)) => mapPaths[i] = ClaimedMapPath(platform, FrameOf(i).filePath)

\* The values of a result's error: a reason, JS null, or no property at all
\* (Undefined).
NullError == "<null>"
Reasons == {NotFound, ErrorReading, NoPositionFound}

\* C18 as stated: every result has an error that is a reason or null, a
\* translated that is null or has file, line, column, name and sourceCode
\* all set, and never both a translated and a reason.
C18_ShapeAsStated ==
    \A i \in 1..Len(results) :
        /\ results[i].error \in Reasons \cup {NullError}
        /\ ~results[i].translated.isNull =>
               /\ results[i].translated.file # NullSource
               /\ results[i].translated.line # NullNum
               /\ results[i].translated.column # NullNum
               /\ ~results[i].translated.name.isNull
               /\ ~results[i].translated.sourceCode.isNull
               /\ results[i].error = NullError
        /\ results[i].error \in Reasons => results[i].translated.isNull

\* C18, amended: every result carries its line as original; translated is
\* null or has a file, a line, a column and a name, with sourceCode null
\* unless the map embeds that line; a translated result has no error
\* property and carries the frame's own position as obfuscated; a frame that
\* was not translated has translated null and a reason as error; a line that
\* is no frame has translated null and no error property.
C18_ResultShape ==
    \A i \in 1..Len(results) :
        /\ results[i].original = stackTrace[i]
        /\ results[i].error \in Reasons \cup {Undefined}
        /\ ~results[i].translated.isNull =>
               /\ results[i].translated.file # NullSource
               /\ results[i].translated.line >= 1
               /\ results[i].translated.column >= 0
               /\ ~results[i].translated.name.isNull
               /\ DocOf(i).content = {} => results[i].translated.sourceCode.isNull
               /\ results[i].error = Undefined
               /\ ~results[i].obfuscated.isNull
               /\ results[i].obfuscated.file = FrameOf(i).filePath
               /\ results[i].obfuscated.line = FrameOf(i).lineNum
               /\ results[i].obfuscated.column = FrameOf(i).column
        /\ results[i].translated.isNull =>
               /\ results[i].obfuscated.isNull
               /\ results[i].error = Undefined <=> ~Located(FrameOf(i))
        /\ results[i].error \in Reasons => results[i].translated.isNull

\* The results of a frame translated through a map without embedded content
\* (sourceCode null, no error property) and of a frame whose map is missing.
C18_Witness ==
    /\ tpc = "returned"
    /\ Len(results) = 2
    /\ ~results[1].translated.isNull
    /\ results[1].translated.file = "index.ts"
    /\ results[1].translated.sourceCode.isNull
    /\ results[1].error = Undefined
    /\ results[2].translated.isNull
    /\ results[2].error = NotFound

\* C19 as stated: in main's summary the number of translated results is at
\* most the number of stack frames.
C19_SuccessWithinFrames ==
    tpc = "summarised" => successCount <= totalFrames

(***************************************************************************)
(* fix-sourcemaps: the loop over the .js.map files of the dist directory,  *)
(* which names the source of a map after the map file when the map's first *)
(* source is "sourceMap".                                                  *)
(***************************************************************************)
indexJs == <<"i", "n", "d", "e", "x">> \o dotJs
srcDir == <<".", ".", "/", "s", "r", "c", "/">>

\* fs.readdirSync(distDir), which lists the names in their sorted order, and
\* its filter(file => file.endsWith('.js.map')).
DistListing == <<indexJs, indexJs \o dotMap, userJs, userJs \o dotMap>>
sourceMapFiles == SelectSeq(DistListing, LAMBDA file : EndsWith(file, dotJs \o dotMap))

\* `../src/${baseName}.ts`, where baseName is the map file's name with its
\* first '.js.map' replaced by '.js' and then the first '.js' removed.
OriginalTsFile(mapFile) ==
    srcDir \o ReplaceFirst(ReplaceFirst(mapFile, dotJs \o dotMap, dotJs), dotJs, <<>>) \o dotTs

\* The source names these paths spell.
Spelling ==
    [n \in {"../src/user.ts", "../src/index.ts"} |->
        srcDir \o (IF n = "../src/user.ts" THEN userTs ELSE <<"i", "n", "d", "e", "x">> \o dotTs)]
Spelled(chars) == CHOOSE n \in DOMAIN Spelling : Spelling[n] = chars

\* sourceMap.sources = [originalTsFile]: the first source gets the new name,
\* and the index of every other source is past the sources.
Moved(doc, s, name) ==
    IF s.source = NullSource THEN s
    ELSE IF SourceIndex(doc, s) = 1 THEN [s EXCEPT !.source = name]
    ELSE [s EXCEPT !.source = Unlisted, !.sourceNth = 1]
Renamed(doc, name) ==
    [doc EXCEPT
        !.sources = <<name>>,
        !.segs = {Moved(doc, s, name) : s \in doc.segs},
        !.content = {[c EXCEPT !.source = name] : c \in EntryAt(doc, 1)}]

\* The map file after the body of the loop: a file that does not parse is
\* left (the catch block), as is one whose first source is not "sourceMap".
Fixed(doc, mapFile) ==
    IF doc.envelope = "bad" THEN doc
    ELSE IF doc.sources # <<>> /\ doc.sources[1] = "sourceMap"
    THEN Renamed(doc, Spelled(OriginalTsFile(mapFile)))
    ELSE doc

FixDocs ==
    { BadEnvelope, InvalidEnvelope, BadMappings,
      Doc({Seg(98, 19, "sourceMap", 5, 10, obfName)}),
      Doc({GenOnly(98, 0), Seg(98, 19, "sourceMap", 5, 10, obfName2)}),
      Doc({Seg(98, 19, "user.js", 5, 10, obfName)}),
      TablesReversed(Doc({Seg(98, 0, "user.js", 5, 3, NullName),
                          Seg(98, 19, "sourceMap", 5, 10, obfName)})),
      Doc({Seg(98, 0, "user.js", 5, 3, NullName), Seg(98, 19, "sourceMap", 5, 10, obfName)}),
      Relisted(Doc({Seg(98, 19, "sourceMap", 5, 10, obfName)})),
      DocWith({Seg(98, 19, "sourceMap", 5, 10, obfName)},
              ContentOf("sourceMap", userTsLines)) }

InitFix ==
    /\ script = "fix"
    /\ bpc = "fix"
    /\ dist \in [1..Len(sourceMapFiles) -> FixDocs]
    /\ dist0 = dist
    /\ backup = <<>> /\ backupDir = FALSE /\ outcome = <<>>
    /\ chainedCount = 0 /\ failedCount = 0 /\ fileIdx = 1
    /\ ComposeIdle
    /\ TraceIdle
    /\ StepIdle
    /\ CodecIdle

\* One turn of the loop over sourceMapFiles.
FixTurn ==
    /\ bpc = "fix"
    /\ fileIdx <= Len(sourceMapFiles)
    /\ dist' = [dist EXCEPT ![fileIdx] = Fixed(dist[fileIdx], sourceMapFiles[fileIdx])]
    /\ fileIdx' = fileIdx + 1
    /\ UNCHANGED <<backup, dist0, outcome, chainedCount, failedCount, bpc, backupDir, script>>
    /\ UNCHANGED <<composeVars, traceVars, stepVars, codecVars>>

FixEnd ==
    /\ bpc = "fix"
    /\ fileIdx > Len(sourceMapFiles)
    /\ bpc' = "fixed"
    /\ UNCHANGED <<backup, dist, dist0, outcome, chainedCount, failedCount, fileIdx, backupDir,
                   script>>
    /\ UNCHANGED <<composeVars, traceVars, stepVars, codecVars>>

NextFix == FixTurn \/ FixEnd

SpecFix == InitFix /\ [][NextFix]_vars

\* When the script has ended, no map that parses has "sourceMap" as its
\* first source, every map that had is named after its map file, and every
\* other map is as it was.
FixRenamesSourceMap ==
    bpc = "fixed" =>
        \A i \in 1..Len(dist) :
            /\ dist[i].sources # <<>> => dist[i].sources[1] # "sourceMap"
            /\ IF dist0[i].sources # <<>> /\ dist0[i].sources[1] = "sourceMap"
               THEN dist[i].sources = <<Spelled(OriginalTsFile(sourceMapFiles[i]))>>
               ELSE dist[i] = dist0[i]

====
